---- MODULE Spec2Model ----
(***************************************************************************)
(* Acuity -> PassKit membership bridge: the order-reconciliation engine    *)
(* (src/lib/helpers.js), the webhook receiver (src/api/webhook.js) and the *)
(* webhook toggle.  Text is modelled as sequences of one-character         *)
(* strings so that trimming, case folding, substring search and the        *)
(* certificate-code pattern are computed, not assumed.                     *)
(***************************************************************************)
EXTENDS Integers, Sequences, FiniteSets, TLC

(***************************************************************************)
(* Text                                                                    *)
(***************************************************************************)
LowerLetters == <<"a","b","c","d","e","f","g","h","i","j","k","l","m",
                  "n","o","p","q","r","s","t","u","v","w","x","y","z">>

UpperLetters == <<"A","B","C","D","E","F","G","H","I","J","K","L","M",
                  "N","O","P","Q","R","S","T","U","V","W","X","Y","Z">>

DigitChars == {"0","1","2","3","4","5","6","7","8","9"}

Range(f) == { f[i] : i \in DOMAIN f }

IsAlnumChar(c) == c \in Range(LowerLetters) \cup Range(UpperLetters) \cup DigitChars

\* String.prototype.toUpperCase / toLowerCase, one character
UpperChar(c) ==
    IF c \in Range(LowerLetters)
    THEN UpperLetters[CHOOSE i \in DOMAIN LowerLetters : LowerLetters[i] = c]
    ELSE c

LowerChar(c) ==
    IF c \in Range(UpperLetters)
    THEN LowerLetters[CHOOSE i \in DOMAIN UpperLetters : UpperLetters[i] = c]
    ELSE c

toUpperCase(s) == [i \in DOMAIN s |-> UpperChar(s[i])]

toLowerCase(s) == [i \in DOMAIN s |-> LowerChar(s[i])]

\* String.prototype.trim: drops leading and trailing white space
trim(s) ==
    LET keep == { i \in DOMAIN s : s[i] # " " }
    IN  IF keep = {} THEN << >>
        ELSE LET lo == CHOOSE i \in keep : \A j \in keep : i <= j
                 hi == CHOOSE i \in keep : \A j \in keep : j <= i
             IN  SubSeq(s, lo, hi)

\* String.prototype.includes
includes(s, p) ==
    \E i \in 0..(Len(s) - Len(p)) : SubSeq(s, i + 1, i + Len(p)) = p

\* String.prototype.split(','): the pieces between the commas, in order
RECURSIVE split(_)
split(s) ==
    LET commas == { i \in DOMAIN s : s[i] = "," }
    IN  IF commas = {} THEN << s >>
        ELSE LET c == CHOOSE i \in commas : \A j \in commas : i <= j
             IN  << SubSeq(s, 1, c - 1) >> \o split(SubSeq(s, c + 1, Len(s)))

(***************************************************************************)
(* Text constants: property names of the order record and literals of the  *)
(* code                                                                    *)
(***************************************************************************)
K == [
  certificateCode |-> <<"c","e","r","t","i","f","i","c","a","t","e","C","o","d","e">>,
  certificate_code |-> <<"c","e","r","t","i","f","i","c","a","t","e","_","c","o","d","e">>,
  certificate |-> <<"c","e","r","t","i","f","i","c","a","t","e">>,
  giftCertificateCode |-> <<"g","i","f","t","C","e","r","t","i","f","i","c","a","t","e","C","o","d","e">>,
  gift_certificate_code |-> <<"g","i","f","t","_","c","e","r","t","i","f","i","c","a","t","e","_","c","o","d","e">>,
  giftCertificate |-> <<"g","i","f","t","C","e","r","t","i","f","i","c","a","t","e">>,
  code |-> <<"c","o","d","e">>,
  cancelled |-> <<"c","a","n","c","e","l","l","e","d">>,
  canceled |-> <<"c","a","n","c","e","l","e","d">>,
  isCancelled |-> <<"i","s","C","a","n","c","e","l","l","e","d">>,
  isCanceled |-> <<"i","s","C","a","n","c","e","l","e","d">>,
  active |-> <<"a","c","t","i","v","e">>,
  isActive |-> <<"i","s","A","c","t","i","v","e">>,
  status |-> <<"s","t","a","t","u","s">>,
  orderStatus |-> <<"o","r","d","e","r","S","t","a","t","u","s">>,
  subscriptionStatus |-> <<"s","u","b","s","c","r","i","p","t","i","o","n","S","t","a","t","u","s">>,
  membershipStatus |-> <<"m","e","m","b","e","r","s","h","i","p","S","t","a","t","u","s">>,
  firstName |-> <<"f","i","r","s","t","N","a","m","e">>,
  lastName |-> <<"l","a","s","t","N","a","m","e">>,
  title |-> <<"t","i","t","l","e">>,
  details |-> <<"d","e","t","a","i","l","s">>,
  voucherGift |-> <<"v","o","u","c","h","e","r","G","i","f","t">> ]

T == [
  expired |-> <<"e","x","p","i","r","e","d">>,
  inactive |-> <<"i","n","a","c","t","i","v","e">>,
  voided |-> <<"v","o","i","d","e","d">>,
  refunded |-> <<"r","e","f","u","n","d","e","d">>,
  failed |-> <<"f","a","i","l","e","d">>,
  cancel |-> <<"c","a","n","c","e","l">>,
  expire |-> <<"e","x","p","i","r","e">>,
  gift |-> <<"g","i","f","t">>,
  true |-> <<"t","r","u","e">>,
  yes |-> <<"y","e","s">>,
  false |-> <<"f","a","l","s","e">>,
  one |-> <<"1">>,
  objectObject |-> <<"[","o","b","j","e","c","t"," ","O","b","j","e","c","t","]">>,
  Tina |-> <<"T","i","n","a">>,
  Cevizovic |-> <<"C","e","v","i","z","o","v","i","c">>,
  membershipTitle |-> <<"U","N","D","E","F","I","N","E","D"," ","x"," ","O","N","E"," ","M","E","M","B","E","R","S","H","I","P">>,
  platinumTitle |-> <<"P","l","a","t","i","n","u","m"," ","A","n","n","u","a","l"," ","M","e","m","b","e","r","s","h","i","p">>,
  trialTitle |-> <<"T","r","i","a","l"," ","C","l","a","s","s">>,
  goldPlatinum |-> <<"g","o","l","d",",","p","l","a","t","i","n","u","m">>,
  goldComma |-> <<"g","o","l","d",",">>,
  Cancelled |-> <<"C","a","n","c","e","l","l","e","d">>,
  yesPadded |-> <<" ","Y","E","S"," ">>,
  expiresSoon |-> <<"E","x","p","i","r","e","s"," ","s","o","o","n"," ">>,
  blank |-> <<" ">>,
  codeLowerPadded |-> <<"a","b","1","2","c","d","3","4"," ">>,
  codeUpper |-> <<"A","B","1","2","C","D","3","4">>,
  codeShort |-> <<"A","B","1","2","C","D","3">>,
  codeDash |-> <<"A","B","1","2","-","D","3","4">>,
  order42 |-> <<"4","2">>,
  order43 |-> <<"4","3">>,
  orderCompleted |-> <<"o","r","d","e","r",".","c","o","m","p","l","e","t","e","d">>,
  orderCancelled |-> <<"o","r","d","e","r",".","c","a","n","c","e","l","l","e","d">>,
  orderCanceled |-> <<"o","r","d","e","r",".","c","a","n","c","e","l","e","d">>,
  orderCancelledRaw |-> <<" ","O","r","d","e","r",".","C","a","n","c","e","l","l","e","d">>,
  otherAction |-> <<"o","r","d","e","r",".","r","e","s","c","h","e","d","u","l","e","d">> ]

(***************************************************************************)
(* JavaScript values.  An order record is a root value and a heap of       *)
(* objects; an object is the sequence of its [k, v] entries in insertion   *)
(* order, and a nested object is a reference into the heap.                *)
(***************************************************************************)
Undef == [t |-> "undef"]

Null == [t |-> "null"]

Str(s) == [t |-> "str", s |-> s]

Num(n) == [t |-> "num", n |-> n]

Bool(b) == [t |-> "bool", b |-> b]

Ref(i) == [t |-> "ref", id |-> i]

\* order?.[key]
Get(p, v, key) ==
    IF v.t # "ref" THEN Undef
    ELSE LET ents == p.heap[v.id]
             at == { i \in DOMAIN ents : ents[i].k = key }
         IN  IF at = {} THEN Undef ELSE ents[CHOOSE i \in at : TRUE].v

\* JavaScript truthiness
Truthy(v) ==
    CASE v.t = "str"  -> v.s # << >>
      [] v.t = "num"  -> v.n # 0
      [] v.t = "bool" -> v.b
      [] v.t = "ref"  -> TRUE
      [] v.t \in { "obj", "arr" } -> TRUE
      [] OTHER        -> FALSE

\* decimal digits of a natural number
RECURSIVE Digits(_)
Digits(n) ==
    LET d == <<"0","1","2","3","4","5","6","7","8","9">>[(n % 10) + 1]
    IN  IF n < 10 THEN << d >> ELSE Digits(n \div 10) \o << d >>

\* String(value), for the values the model uses
JsString(v) ==
    CASE v.t = "str"  -> v.s
      [] v.t = "num"  -> IF v.n < 0 THEN << "-" >> \o Digits(-v.n) ELSE Digits(v.n)
      [] v.t = "bool" -> IF v.b THEN T.true ELSE T.false
      [] v.t = "ref"  -> T.objectObject
      [] v.t = "obj"  -> T.objectObject
      [] v.t = "null" -> <<"n","u","l","l">>
      [] OTHER        -> <<"u","n","d","e","f","i","n","e","d">>

\* value || ''
OrEmpty(v) == IF Truthy(v) THEN JsString(v) ELSE << >>

(***************************************************************************)
(* Certificate codes                                                       *)
(***************************************************************************)
CodeLen == 8

\* isCertificateCode with the pattern {1,8} in place of {8}
isCertificateCode_UpTo8(value) ==
    /\ value.t = "str"
    /\ LET s == trim(value.s)
       IN  Len(s) \in 1..CodeLen /\ \A i \in DOMAIN s : IsAlnumChar(s[i])

isCertificateCode(value) ==
    /\ value.t = "str"
    /\ LET s == trim(value.s)
       IN  Len(s) = CodeLen /\ \A i \in DOMAIN s : IsAlnumChar(s[i])

\* normalizeCertificateCode without toUpperCase()
normalizeCertificateCode_NoUpper(value) == trim(OrEmpty(value))

normalizeCertificateCode(value) == toUpperCase(trim(OrEmpty(value)))

keyLooksRelevant(key) ==
    LET k == toLowerCase(key)
    IN  includes(k, toLowerCase(K.certificate)) \/ includes(k, T.gift)

MaxWalk == 6

\* the fallback loop of extractCertificateCode: a stack of values, popped
\* from the end; "diverged" when the loop is still running after MaxWalk pops
RECURSIVE Walk(_, _, _)
Walk(p, stack, fuel) ==
    IF stack = << >> THEN Null
    ELSE IF fuel = 0 THEN [t |-> "diverged"]
    ELSE LET current == stack[Len(stack)]
             rest == SubSeq(stack, 1, Len(stack) - 1)
         IN  IF current.t # "ref" THEN Walk(p, rest, fuel - 1)
             ELSE LET ents == p.heap[current.id]
                      hits == { i \in DOMAIN ents :
                                  /\ ents[i].v.t = "str"
                                  /\ keyLooksRelevant(ents[i].k)
                                  /\ isCertificateCode(ents[i].v) }
                      vals == [i \in DOMAIN ents |-> ents[i].v]
                      IsObj(v) == v.t = "ref"
                  IN  IF hits # {}
                      THEN Str(trim(ents[CHOOSE i \in hits : \A j \in hits : i <= j].v.s))
                      ELSE Walk(p, rest \o SelectSeq(vals, IsObj), fuel - 1)

\* extractCertificateCode returning the direct candidate as it was found,
\* without trim()
extractCertificateCode_NoTrim(p) ==
    LET order == p.root
        directCandidates == <<
            Get(p, order, K.certificateCode),
            Get(p, order, K.certificate_code),
            Get(p, order, K.certificate),
            Get(p, order, K.giftCertificateCode),
            Get(p, order, K.gift_certificate_code),
            Get(p, order, K.giftCertificate),
            Get(p, Get(p, order, K.certificate), K.code),
            Get(p, Get(p, order, K.giftCertificate), K.code) >>
        good == { i \in DOMAIN directCandidates : isCertificateCode(directCandidates[i]) }
    IN  IF good # {}
        THEN directCandidates[CHOOSE i \in good : \A j \in good : i <= j]
        ELSE Walk(p, << order >>, MaxWalk)

extractCertificateCode(p) ==
    LET order == p.root
        directCandidates == <<
            Get(p, order, K.certificateCode),
            Get(p, order, K.certificate_code),
            Get(p, order, K.certificate),
            Get(p, order, K.giftCertificateCode),
            Get(p, order, K.gift_certificate_code),
            Get(p, order, K.giftCertificate),
            Get(p, Get(p, order, K.certificate), K.code),
            Get(p, Get(p, order, K.giftCertificate), K.code) >>
        good == { i \in DOMAIN directCandidates : isCertificateCode(directCandidates[i]) }
    IN  IF good # {}
        THEN Str(trim(directCandidates[CHOOSE i \in good : \A j \in good : i <= j].s))
        ELSE Walk(p, << order >>, MaxWalk)

(***************************************************************************)
(* Order activity classifier                                               *)
(***************************************************************************)
INACTIVE_ORDER_STATUS ==
    { K.cancelled, K.canceled, T.expired, T.inactive, T.voided, T.refunded, T.failed }

isTruthyFlag(value) ==
    CASE value.t = "bool" -> value.b
      [] value.t = "num"  -> value.n = 1
      [] value.t = "str"  -> LET normalized == toLowerCase(trim(value.s))
                             IN  normalized \in { T.true, T.one, T.yes }
      [] OTHER            -> FALSE

IsFalse(v) == v.t = "bool" /\ ~v.b

\* evaluateOrderActivity with the status fields looked at before the flags
evaluateOrderActivity_StatusFirst(p) ==
    LET order == p.root
        cancellationFlags == << K.cancelled, K.canceled, K.isCancelled, K.isCanceled >>
        set == { i \in DOMAIN cancellationFlags :
                    isTruthyFlag(Get(p, order, cancellationFlags[i])) }
        statusFields == << Get(p, order, K.status), Get(p, order, K.orderStatus),
                           Get(p, order, K.subscriptionStatus),
                           Get(p, order, K.membershipStatus) >>
        Terminal(value) ==
            /\ value.t = "str"
            /\ LET normalized == toLowerCase(trim(value.s))
               IN  /\ normalized # << >>
                   /\ \/ normalized \in INACTIVE_ORDER_STATUS
                      \/ includes(normalized, T.cancel)
                      \/ includes(normalized, T.expire)
        bad == { i \in DOMAIN statusFields : Terminal(statusFields[i]) }
    IN  IF bad # {}
        THEN [active |-> FALSE, kind |-> "status",
              detail |-> statusFields[CHOOSE i \in bad : \A j \in bad : i <= j].s]
        ELSE IF set # {}
        THEN [active |-> FALSE, kind |-> "flag",
              detail |-> cancellationFlags[CHOOSE i \in set : \A j \in set : i <= j]]
        ELSE IF IsFalse(Get(p, order, K.active)) \/ IsFalse(Get(p, order, K.isActive))
        THEN [active |-> FALSE, kind |-> "marked", detail |-> << >>]
        ELSE [active |-> TRUE, kind |-> "none", detail |-> << >>]

\* evaluateOrderActivity comparing the status fields as they are written,
\* without trim().toLowerCase()
evaluateOrderActivity_Literal(p) ==
    LET order == p.root
        cancellationFlags == << K.cancelled, K.canceled, K.isCancelled, K.isCanceled >>
        set == { i \in DOMAIN cancellationFlags :
                    isTruthyFlag(Get(p, order, cancellationFlags[i])) }
        statusFields == << Get(p, order, K.status), Get(p, order, K.orderStatus),
                           Get(p, order, K.subscriptionStatus),
                           Get(p, order, K.membershipStatus) >>
        Terminal(value) ==
            /\ value.t = "str"
            /\ value.s # << >>
            /\ \/ value.s \in INACTIVE_ORDER_STATUS
               \/ includes(value.s, T.cancel)
               \/ includes(value.s, T.expire)
        bad == { i \in DOMAIN statusFields : Terminal(statusFields[i]) }
    IN  IF set # {}
        THEN [active |-> FALSE, kind |-> "flag",
              detail |-> cancellationFlags[CHOOSE i \in set : \A j \in set : i <= j]]
        ELSE IF IsFalse(Get(p, order, K.active)) \/ IsFalse(Get(p, order, K.isActive))
        THEN [active |-> FALSE, kind |-> "marked", detail |-> << >>]
        ELSE IF bad # {}
        THEN [active |-> FALSE, kind |-> "status",
              detail |-> statusFields[CHOOSE i \in bad : \A j \in bad : i <= j].s]
        ELSE [active |-> TRUE, kind |-> "none", detail |-> << >>]

\* [active, kind, detail]: kind "flag" (detail = the flag's name), "marked",
\* "status" (detail = the status field's literal value) or "none"
evaluateOrderActivity(p) ==
    LET order == p.root
        cancellationFlags == << K.cancelled, K.canceled, K.isCancelled, K.isCanceled >>
        set == { i \in DOMAIN cancellationFlags :
                    isTruthyFlag(Get(p, order, cancellationFlags[i])) }
        statusFields == << Get(p, order, K.status), Get(p, order, K.orderStatus),
                           Get(p, order, K.subscriptionStatus),
                           Get(p, order, K.membershipStatus) >>
        Terminal(value) ==
            /\ value.t = "str"
            /\ LET normalized == toLowerCase(trim(value.s))
               IN  /\ normalized # << >>
                   /\ \/ normalized \in INACTIVE_ORDER_STATUS
                      \/ includes(normalized, T.cancel)
                      \/ includes(normalized, T.expire)
        bad == { i \in DOMAIN statusFields : Terminal(statusFields[i]) }
    IN  IF set # {}
        THEN [active |-> FALSE, kind |-> "flag",
              detail |-> cancellationFlags[CHOOSE i \in set : \A j \in set : i <= j]]
        ELSE IF IsFalse(Get(p, order, K.active)) \/ IsFalse(Get(p, order, K.isActive))
        THEN [active |-> FALSE, kind |-> "marked", detail |-> << >>]
        ELSE IF bad # {}
        THEN [active |-> FALSE, kind |-> "status",
              detail |-> statusFields[CHOOSE i \in bad : \A j \in bad : i <= j].s]
        ELSE [active |-> TRUE, kind |-> "none", detail |-> << >>]

(***************************************************************************)
(* The booking API's answers.  Orders[n] is one order record the booking   *)
(* API can return for an order id.                                         *)
(***************************************************************************)
E(k, v) == [k |-> k, v |-> v]

Orders == <<
  \* 1: active membership, code in lower case with a trailing blank
  [root |-> Ref(1),
   heap |-> << << E(K.firstName, Str(T.Tina)), E(K.lastName, Str(T.Cevizovic)),
                  E(K.title, Str(T.membershipTitle)),
                  E(K.certificateCode, Str(T.codeLowerPadded)) >> >>],
  \* 2: the same order reported cancelled
  [root |-> Ref(1),
   heap |-> << << E(K.firstName, Str(T.Tina)), E(K.lastName, Str(T.Cevizovic)),
                  E(K.title, Str(T.membershipTitle)),
                  E(K.certificateCode, Str(T.codeLowerPadded)),
                  E(K.status, Str(T.Cancelled)) >> >>],
  \* 3: no valid code (7 characters, and one with a dash)
  [root |-> Ref(1),
   heap |-> << << E(K.firstName, Str(T.Tina)), E(K.lastName, Str(T.Cevizovic)),
                  E(K.title, Str(T.membershipTitle)),
                  E(K.certificateCode, Str(T.codeShort)),
                  E(K.giftCertificate, Str(T.codeDash)) >> >>],
  \* 4: another product, code present, no last name
  [root |-> Ref(1),
   heap |-> << << E(K.firstName, Str(T.Tina)),
                  E(K.title, Str(T.trialTitle)),
                  E(K.certificateCode, Str(T.codeUpper)) >> >>],
  \* 5: a product the filter names, code in a nested object
  [root |-> Ref(1),
   heap |-> << << E(K.firstName, Str(T.Tina)), E(K.lastName, Str(T.Cevizovic)),
                  E(K.title, Str(T.platinumTitle)),
                  E(K.details, Ref(2)) >>,
               << E(K.voucherGift, Str(T.codeUpper)) >> >>],
  \* 6: another product, cancelled, no code
  [root |-> Ref(1),
   heap |-> << << E(K.title, Str(T.trialTitle)),
                  E(K.status, Str(K.cancelled)) >> >>] >>

OrderIds == { T.order42 }

(***************************************************************************)
(* State                                                                   *)
(***************************************************************************)
VARIABLES
    cfg,                     \* getConfig(): programId set?, filter, redis available?
    wallet,                  \* the wallet provider's members
    nextId,                  \* the next member id the provider assigns
    mapping,                 \* redis: acuity_cert_to_order:<code> -> order id
    redisFlag,               \* redis: acuity_webhook_enabled
    inMemoryWebhookEnabled,  \* the module variable of that name
    runs,                    \* the invocations, each with its position and trace
    faults,                  \* requests that failed so far
    logList                  \* redis: acuity_passkit_logs, newest entry first

vars ==
    << cfg, wallet, nextId, mapping, redisFlag, inMemoryWebhookEnabled, runs, faults, logList >>

\* at most MaxRuns invocations, and at most MaxFaults failing requests, in a behaviour
MaxRuns == 1

MaxFaults == 2

\* at most MaxRepeat invocations for one certificate code
MaxRepeat == 2

TIER_ID == "membership"

NoReason == [kind |-> "none", detail |-> << >>]

Pending == [status |-> "pending", reason |-> NoReason, error |-> "", method |-> "",
            passKitId |-> 0, member |-> << >>, externalId |-> << >>, inner |-> ""]

Log(level, msg) == [e |-> "log", level |-> level, msg |-> msg]

NewRun(via, orderId, enabled) ==
    [kind |-> "none", via |-> via, pc |-> "start", orderId |-> orderId, arg |-> << >>,
     order |-> 0, code |-> << >>, member |-> 0, wrap |-> FALSE, reason |-> NoReason,
     method |-> "", passKitId |-> 0, body |-> << >>, trace |-> << >>,
     result |-> Pending, http |-> 0, enabled |-> enabled, out |-> Undef]

\* the handler's answer once the engine call has returned or thrown
\* the receiver answering 500 when the engine call has thrown
Respond_Retry(r) ==
    CASE r.via = "webhook" ->
            IF r.result.status = "error"
            THEN [r EXCEPT !.http = 500,
                           !.trace = @ \o << Log("error", "Error processing order") >>]
            ELSE [r EXCEPT !.http = 200]
      [] r.via = "manual" ->
            [r EXCEPT !.http = IF r.result.status = "error" THEN 500 ELSE 200]
      [] OTHER -> r

Respond(r) ==
    CASE r.via = "webhook" ->
            IF r.result.status = "error"
            THEN [r EXCEPT !.http = 200,
                           !.trace = @ \o << Log("error", "Error processing order") >>]
            ELSE [r EXCEPT !.http = 200]
      [] r.via = "manual" ->
            [r EXCEPT !.http = IF r.result.status = "error" THEN 500 ELSE 200]
      [] OTHER -> r

Return(r, result) == Respond([r EXCEPT !.pc = "done", !.result = result])

Throw(r, error) == Return(r, [Pending EXCEPT !.status = "error", !.error = error])

Emit(r, events) == [r EXCEPT !.trace = @ \o events]

(***************************************************************************)
(* processNewMembershipOrder, processMembershipCancellation and            *)
(* cancelMembershipByCertificateCode: the code between two network calls   *)
(***************************************************************************)
\* the filter of processNewMembershipOrder without toLowerCase() on the title
passesFilter_TitleAsWritten(p) ==
    LET pieces == split(cfg.filter)
        filterProducts == IF cfg.filter # << >>
                          THEN [i \in DOMAIN pieces |-> toLowerCase(trim(pieces[i]))]
                          ELSE << >>
        orderTitle == OrEmpty(Get(p, p.root, K.title))
    IN  Len(filterProducts) > 0 =>
            \E i \in DOMAIN filterProducts : includes(orderTitle, filterProducts[i])

\* Step 2 of processNewMembershipOrder: TRUE when the order goes on
passesFilter(p) ==
    LET pieces == split(cfg.filter)
        filterProducts == IF cfg.filter # << >>
                          THEN [i \in DOMAIN pieces |-> toLowerCase(trim(pieces[i]))]
                          ELSE << >>
        orderTitle == toLowerCase(OrEmpty(Get(p, p.root, K.title)))
    IN  Len(filterProducts) > 0 =>
            \E i \in DOMAIN filterProducts : includes(orderTitle, filterProducts[i])

\* Step 3 of processNewMembershipOrder: the member record sent to the wallet
memberData(p, orderId, certificateCode) ==
    [programId |-> cfg.programId,
     tierId |-> TIER_ID,
     externalId |-> certificateCode,
     displayName |-> trim(OrEmpty(Get(p, p.root, K.firstName)) \o << " " >>
                          \o OrEmpty(Get(p, p.root, K.lastName))),
     acuityOrderId |-> orderId,
     certificateCode |-> certificateCode,
     membershipType |-> OrEmpty(Get(p, p.root, K.title))]

\* deactivatePassKitMembershipByExternalId and findPassKitMemberByExternalId
\* without their test of PASSKIT_PROGRAM_ID
EnterCancel_NoProgramCheck(r, value) ==
    LET code == normalizeCertificateCode(value)
    IN  IF ~isCertificateCode(Str(code)) THEN Throw(r, "invalid_code")
        ELSE [r EXCEPT !.code = code, !.pc = "lookup1"]

\* cancelMembershipByCertificateCode without the isCertificateCode check
EnterCancel_NoValidation(r, value) ==
    LET code == normalizeCertificateCode(value)
    IN  IF ~cfg.programId
        THEN Throw([r EXCEPT !.code = code], "missing_program_id")
        ELSE [r EXCEPT !.code = code, !.pc = "lookup1"]

\* cancelMembershipByCertificateCode and deactivatePassKitMembershipByExternalId
\* up to the first wallet request
EnterCancel(r, value) ==
    LET code == normalizeCertificateCode(value)
    IN  IF ~isCertificateCode(Str(code)) THEN Throw(r, "invalid_code")
        ELSE IF ~cfg.programId
        THEN Throw([r EXCEPT !.code = code], "missing_program_id")
        ELSE [r EXCEPT !.code = code, !.pc = "lookup1"]

\* the cancellation's return value when a member the Resolver did not find
\* is an error
FinishCancel_NotFoundRaises(r) ==
    IF r.method = "member_not_found"
    THEN Throw(r, "member_not_found")
    ELSE IF r.wrap
    THEN Return(r, [Pending EXCEPT !.status = "skipped", !.reason = r.reason,
                                   !.inner = "success", !.method = r.method,
                                   !.passKitId = r.passKitId, !.externalId = r.code])
    ELSE Return(r, [Pending EXCEPT !.status = "success", !.method = r.method,
                                   !.passKitId = r.passKitId, !.externalId = r.code])

\* the cancellation's return value, wrapped when the order was being enrolled
FinishCancel(r) ==
    IF r.wrap
    THEN Return(r, [Pending EXCEPT !.status = "skipped", !.reason = r.reason,
                                   !.inner = "success", !.method = r.method,
                                   !.passKitId = r.passKitId, !.externalId = r.code])
    ELSE Return(r, [Pending EXCEPT !.status = "success", !.method = r.method,
                                   !.passKitId = r.passKitId, !.externalId = r.code])

\* processNewMembershipOrder from the booking API's answer to the next request
AfterOrderFetch(r, n) ==
    LET p == Orders[n]
        r1 == Emit([r EXCEPT !.order = n],
                   << [e |-> "fetch", ok |-> TRUE], Log("info", "Fetched order") >>)
        extractedCertificateCode == extractCertificateCode(p)
        certificateCode == normalizeCertificateCode(extractedCertificateCode)
        orderActivity == evaluateOrderActivity(p)
    IN  IF ~passesFilter(p)
        THEN Return(Emit(r1, << Log("info", "Order doesn't match filter") >>),
                    [Pending EXCEPT !.status = "skipped",
                                    !.reason = [kind |-> "filter_mismatch", detail |-> << >>]])
        ELSE IF ~Truthy(extractedCertificateCode)
        THEN Throw(Emit(r1, << Log("error", "Order is missing a valid certificate code") >>),
                   "missing_code")
        ELSE IF ~orderActivity.active
        THEN EnterCancel(
                Emit([r1 EXCEPT !.wrap = TRUE,
                                !.reason = [kind |-> orderActivity.kind,
                                            detail |-> orderActivity.detail]],
                     << Log("warn", "Order appears inactive") >>),
                Str(certificateCode))
        ELSE Emit([r1 EXCEPT !.code = certificateCode,
                             !.body = memberData(p, r.orderId, certificateCode),
                             !.pc = "upsert"],
                  << Log("info", "Creating PassKit member") >>)

\* processMembershipCancellation without the test for a missing code
AfterCancellationFetch_NoCheck(r, n) ==
    LET p == Orders[n]
        r1 == Emit([r EXCEPT !.order = n],
                   << [e |-> "fetch", ok |-> TRUE],
                      Log("info", "Fetched cancellation order") >>)
        certificateCode == extractCertificateCode(p)
    IN  EnterCancel(r1, certificateCode)

\* processMembershipCancellation from the booking API's answer on
AfterCancellationFetch(r, n) ==
    LET p == Orders[n]
        r1 == Emit([r EXCEPT !.order = n],
                   << [e |-> "fetch", ok |-> TRUE],
                      Log("info", "Fetched cancellation order") >>)
        certificateCode == extractCertificateCode(p)
    IN  IF ~Truthy(certificateCode)
        THEN Return(Emit(r1, << Log("warn", "No certificate code found for cancellation order") >>),
                    [Pending EXCEPT !.status = "skipped",
                                    !.reason = [kind |-> "no_certificate_code", detail |-> << >>]])
        ELSE EnterCancel(r1, certificateCode)

(***************************************************************************)
(* The wallet provider and the mapping store                               *)
(***************************************************************************)
MembersOf(externalId) == { m \in wallet : m.externalId = externalId }

\* PUT /members/member creating a member on every request
UpsertMember_Create(w, body, id, status) ==
    w \cup { [id |-> nextId, externalId |-> body.externalId, status |-> status,
              tierId |-> body.tierId, displayName |-> body.displayName,
              acuityOrderId |-> body.acuityOrderId,
              certificateCode |-> body.certificateCode] }

\* PUT /members/member of a member record: create, or replace by external id
UpsertMember(w, body, id, status) ==
    LET old == { m \in w : m.externalId = body.externalId }
        new == [id |-> id, externalId |-> body.externalId, status |-> status,
                tierId |-> body.tierId, displayName |-> body.displayName,
                acuityOrderId |-> body.acuityOrderId,
                certificateCode |-> body.certificateCode]
    IN  (w \ old) \cup { new }

\* PUT /members/member with status CANCELLED for a member id
CancelMember(w, id) ==
    { IF m.id = id THEN [m EXCEPT !.status = "CANCELLED"] ELSE m : m \in w }

\* DELETE /members/member
DeleteMember(w, id) == { m \in w : m.id # id }

\* the expiry given to redis.set, in seconds
CERT_TO_ORDER_TTL_SECONDS == 60 * 60 * 24 * 90

\* the mapping stored with redis.set's KEEPTTL in place of ex: a key that is
\* already held keeps the time it had left
storeCertificateOrderMapping_KeepTtl(m, certificateCode, orderId) ==
    LET code == normalizeCertificateCode(Str(certificateCode))
        held == { e \in m : e.key = code }
    IN  IF ~isCertificateCode(Str(code)) THEN m
        ELSE IF held = {}
        THEN m \cup { [key |-> code, value |-> orderId, ex |-> CERT_TO_ORDER_TTL_SECONDS] }
        ELSE { e \in m : e.key # code } \cup { [e EXCEPT !.value = orderId] : e \in held }

\* storeCertificateOrderMapping with the backend answering: redis.set of the
\* key, replacing the entry and its time to live
storeCertificateOrderMapping(m, certificateCode, orderId) ==
    LET code == normalizeCertificateCode(Str(certificateCode))
    IN  IF ~isCertificateCode(Str(code)) THEN m
        ELSE { e \in m : e.key # code }
                \cup { [key |-> code, value |-> orderId, ex |-> CERT_TO_ORDER_TTL_SECONDS] }

\* resolveOrderIdByCertificateCode with the backend answering: redis.get
resolveOrderIdByCertificateCode(m, certificateCode) ==
    LET code == normalizeCertificateCode(Str(certificateCode))
        found == { e \in m : e.key = code }
    IN  IF ~isCertificateCode(Str(code)) THEN Null
        ELSE IF ~cfg.redis THEN Null
        ELSE IF found = {} THEN Null
        ELSE LET orderId == (CHOOSE e \in found : TRUE).value
             IN  IF orderId = << >> THEN Null ELSE Str(orderId)

\* removeCertificateOrderMapping issuing redis.del for the bare code, a key
\* the store does not hold
removeCertificateOrderMapping_BareKey(m, certificateCode) == m

\* removeCertificateOrderMapping with the backend answering: redis.del
removeCertificateOrderMapping(m, certificateCode) ==
    LET code == normalizeCertificateCode(Str(certificateCode))
    IN  IF ~isCertificateCode(Str(code)) THEN m
        ELSE { e \in m : e.key # code }

(***************************************************************************)
(* Entry points.  Each runs to its first wallet request: the order fetch   *)
(* reads nothing another invocation writes.                                *)
(***************************************************************************)
\* a request fails: allowed while the budget lasts
Fault == faults < MaxFaults /\ faults' = faults + 1

NoFault == UNCHANGED faults

\* processNewMembershipOrder(orderId) up to its first wallet request
processNewMembershipOrder(r0, fetched) ==
    LET r == Emit([r0 EXCEPT !.kind = "enroll"], << Log("info", "Processing order") >>)
    IN  IF fetched = 0
        THEN Throw(Emit(r, << [e |-> "fetch", ok |-> FALSE],
                              Log("error", "Failed to fetch order") >>), "fetch_failed")
        ELSE AfterOrderFetch(r, fetched)

\* processMembershipCancellation with a catch that logs the failed fetch and
\* returns a skipped result
processMembershipCancellation_FetchSwallowed(r0, fetched) ==
    LET r == Emit([r0 EXCEPT !.kind = "cancelOrder"],
                  << Log("info", "Processing cancellation for order") >>)
    IN  IF fetched = 0
        THEN Return(Emit(r, << [e |-> "fetch", ok |-> FALSE],
                               Log("error", "Failed to fetch cancellation order") >>),
                    [Pending EXCEPT !.status = "skipped"])
        ELSE AfterCancellationFetch(r, fetched)

\* processMembershipCancellation(orderId, context) up to its first wallet request
processMembershipCancellation(r0, fetched) ==
    LET r == Emit([r0 EXCEPT !.kind = "cancelOrder"],
                  << Log("info", "Processing cancellation for order") >>)
    IN  IF fetched = 0
        THEN Throw(Emit(r, << [e |-> "fetch", ok |-> FALSE],
                              Log("error", "Failed to fetch cancellation order") >>),
                   "fetch_failed")
        ELSE AfterCancellationFetch(r, fetched)

\* cancelMembershipByCertificateCode(certificateCode, context) up to its first request
cancelMembershipByCertificateCode(r0, certificateCode) ==
    EnterCancel([r0 EXCEPT !.kind = "cancelCode", !.arg = certificateCode],
                Str(certificateCode))

\* the booking API answers a fetch with one of Orders, or the fetch fails (0)
Fetched(n) == IF n = 0 THEN Fault ELSE NoFault

Answers == {0} \cup DOMAIN Orders

\* what the booking API answers for an order a cancellation is processed for:
\* the cancelled order, the orders without a code, the one with a nested code
CancellationAnswers == { 0, 2, 3, 5, 6 }

\* a caller may start another invocation
Call(limit) == Len(runs) < limit

StartEnroll(orderId, answers) ==
    /\ \E n \in answers :
          /\ Fetched(n)
          /\ runs' = Append(runs,
                processNewMembershipOrder(NewRun("direct", orderId, TRUE), n))
    /\ UNCHANGED << logList, cfg, wallet, nextId, mapping, redisFlag, inMemoryWebhookEnabled >>

StartCancelOrder(orderId, answers) ==
    /\ \E n \in answers :
          /\ Fetched(n)
          /\ runs' = Append(runs,
                processMembershipCancellation(NewRun("direct", orderId, TRUE), n))
    /\ UNCHANGED << logList, cfg, wallet, nextId, mapping, redisFlag, inMemoryWebhookEnabled >>

StartCancelCode(certificateCode) ==
    /\ runs' = Append(runs,
          cancelMembershipByCertificateCode(NewRun("direct", << >>, TRUE), certificateCode))
    /\ UNCHANGED << logList, cfg, wallet, nextId, mapping, redisFlag, inMemoryWebhookEnabled, faults >>

(***************************************************************************)
(* The mapping store's functions called by themselves: one backend request *)
(* each, every failure caught                                              *)
(***************************************************************************)
\* the finished call: what it asked of the backend and what it returned
StoreRun(kind, certificateCode, orderId, events, out) ==
    [NewRun("direct", orderId, TRUE) EXCEPT
        !.kind = kind, !.arg = certificateCode, !.pc = "done", !.trace = events,
        !.out = out, !.result = [Pending EXCEPT !.status = "success"]]

\* storeCertificateOrderMapping(certificateCode, orderId)
StartStore(certificateCode, orderId) ==
    LET code == normalizeCertificateCode(Str(certificateCode))
        asks == cfg.redis /\ isCertificateCode(Str(code))
        event(ok) == [e |-> "mapSet", key |-> code, value |-> orderId, ok |-> ok]
        done(events) == Append(runs, StoreRun("store", certificateCode, orderId, events, Undef))
    IN  /\ \/ /\ ~asks
              /\ NoFault
              /\ runs' = done(<< >>)
              /\ UNCHANGED mapping
           \/ /\ asks
              /\ NoFault
              /\ mapping' = storeCertificateOrderMapping(mapping, certificateCode, orderId)
              /\ runs' = done(<< event(TRUE) >>)
           \/ /\ asks
              /\ Fault
              /\ runs' = done(<< event(FALSE) >>)
              /\ UNCHANGED mapping
        /\ UNCHANGED << logList, cfg, wallet, nextId, redisFlag, inMemoryWebhookEnabled >>

\* resolveOrderIdByCertificateCode(certificateCode)
StartResolve(certificateCode) ==
    LET code == normalizeCertificateCode(Str(certificateCode))
        asks == isCertificateCode(Str(code)) /\ cfg.redis
        event(ok) == [e |-> "mapGet", key |-> code, ok |-> ok]
        done(events, out) ==
            Append(runs, StoreRun("resolve", certificateCode, << >>, events, out))
    IN  /\ \/ /\ ~asks
              /\ NoFault
              /\ runs' = done(<< >>, Null)
           \/ /\ asks
              /\ NoFault
              /\ runs' = done(<< event(TRUE) >>,
                              resolveOrderIdByCertificateCode(mapping, certificateCode))
           \/ /\ asks
              /\ Fault
              /\ runs' = done(<< event(FALSE) >>, Null)
        /\ UNCHANGED << logList, cfg, wallet, nextId, mapping, redisFlag, inMemoryWebhookEnabled >>

\* removeCertificateOrderMapping(certificateCode)
StartRemove(certificateCode) ==
    LET code == normalizeCertificateCode(Str(certificateCode))
        asks == cfg.redis /\ isCertificateCode(Str(code))
        event(ok) == [e |-> "mapDel", key |-> code, ok |-> ok]
        done(events) == Append(runs, StoreRun("remove", certificateCode, << >>, events, Undef))
    IN  /\ \/ /\ ~asks
              /\ NoFault
              /\ runs' = done(<< >>)
              /\ UNCHANGED mapping
           \/ /\ asks
              /\ NoFault
              /\ mapping' = removeCertificateOrderMapping(mapping, certificateCode)
              /\ runs' = done(<< event(TRUE) >>)
           \/ /\ asks
              /\ Fault
              /\ runs' = done(<< event(FALSE) >>)
              /\ UNCHANGED mapping
        /\ UNCHANGED << logList, cfg, wallet, nextId, redisFlag, inMemoryWebhookEnabled >>

\* time passes: the backend drops the keys whose time to live has run out
Expire(seconds) ==
    /\ mapping' = { [e EXCEPT !.ex = @ - seconds] : e \in { x \in mapping : x.ex > seconds } }
    /\ runs' = Append(runs, StoreRun("tick", << >>, << >>,
                                     << [e |-> "tick", d |-> seconds] >>, Undef))
    /\ UNCHANGED << logList, cfg, wallet, nextId, redisFlag, inMemoryWebhookEnabled, faults >>

(***************************************************************************)
(* The webhook toggle and the webhook receiver                             *)
(***************************************************************************)
\* getWebhookDefaultEnabled() with WEBHOOK_ENABLED_DEFAULT not set
getWebhookDefaultEnabled == TRUE

\* getWebhookEnabled() asking the backend without looking at the module variable
getWebhookEnabled_StoreOnly ==
    LET fallback == getWebhookDefaultEnabled
    IN  IF ~cfg.redis THEN fallback
        ELSE IF redisFlag = "unset" THEN fallback
        ELSE redisFlag = "true"

\* getWebhookEnabled() with the backend answering
getWebhookEnabled ==
    LET fallback == getWebhookDefaultEnabled
    IN  IF inMemoryWebhookEnabled \in { "true", "false" } THEN inMemoryWebhookEnabled = "true"
        ELSE IF ~cfg.redis THEN fallback
        ELSE IF redisFlag = "unset" THEN fallback
        ELSE redisFlag = "true"

\* setWebhookEnabled(enabled); a failing redis.set throws before anything is kept
SetWebhookEnabled(enabled) ==
    LET nextValue == IF enabled THEN "true" ELSE "false"
    IN  /\ \/ /\ cfg.redis
              /\ NoFault
              /\ redisFlag' = nextValue
              /\ inMemoryWebhookEnabled' = nextValue
           \/ /\ cfg.redis
              /\ Fault
              /\ UNCHANGED << redisFlag, inMemoryWebhookEnabled >>
           \/ /\ ~cfg.redis
              /\ NoFault
              /\ inMemoryWebhookEnabled' = nextValue
              /\ UNCHANGED redisFlag
        /\ UNCHANGED << logList, cfg, wallet, nextId, mapping, runs >>

\* verifyAcuitySignature accepting whatever header is sent
verifyAcuitySignature_Any(signature) == TRUE

\* verifyAcuitySignature(rawBody, signature): the header is absent, the HMAC of
\* the body under the API key ("match"), or anything else ("mismatch")
verifyAcuitySignature(signature) == cfg.acuityKey /\ signature = "match"

\* the receiver comparing body.action as it was sent
handler_ActionAsSent(method, readable, signature, bodyAction, bodyId, fetched) ==
    LET r0 == [NewRun("webhook", bodyId, getWebhookEnabled) EXCEPT
                  !.arg = [method |-> method, readable |-> readable,
                           signature |-> signature, action |-> bodyAction, id |-> bodyId]]
        r1 == Emit(r0, << Log("info", "Received Acuity webhook") >>)
        action == bodyAction
        isOrderCompleted == action = T.orderCompleted
        isOrderCancellation == action = T.orderCancelled \/ action = T.orderCanceled
        answer(r, code) == [r EXCEPT !.pc = "done", !.http = code]
    IN  IF method # "POST" THEN answer(r0, 405)
        ELSE IF ~readable THEN answer(r0, 400)
        ELSE IF signature # "absent" /\ ~verifyAcuitySignature(signature)
        THEN answer(Emit(r1, << Log("error", "Invalid Acuity webhook signature") >>), 401)
        ELSE IF action = << >>
        THEN answer(Emit(r1, << Log("warn", "Ignoring webhook with missing action") >>), 200)
        ELSE IF ~isOrderCompleted /\ ~isOrderCancellation
        THEN answer(Emit(r1, << Log("info", "Ignoring webhook action") >>), 200)
        ELSE IF bodyId = << >>
        THEN answer(Emit(r1, << Log("error", "No order ID in webhook payload") >>), 400)
        ELSE IF isOrderCancellation
        THEN processMembershipCancellation(r1, fetched)
        ELSE processNewMembershipOrder(r1, fetched)

\* the receiver up to the engine call it makes, if any
\* (body.action and body.id are << >> when the field is missing)
handler(method, readable, signature, bodyAction, bodyId, fetched) ==
    LET r0 == [NewRun("webhook", bodyId, getWebhookEnabled) EXCEPT
                  !.arg = [method |-> method, readable |-> readable,
                           signature |-> signature, action |-> bodyAction, id |-> bodyId]]
        r1 == Emit(r0, << Log("info", "Received Acuity webhook") >>)
        action == toLowerCase(trim(bodyAction))
        isOrderCompleted == action = T.orderCompleted
        isOrderCancellation == action = T.orderCancelled \/ action = T.orderCanceled
        answer(r, code) == [r EXCEPT !.pc = "done", !.http = code]
    IN  IF method # "POST" THEN answer(r0, 405)
        ELSE IF ~readable THEN answer(r0, 400)
        ELSE IF signature # "absent" /\ ~verifyAcuitySignature(signature)
        THEN answer(Emit(r1, << Log("error", "Invalid Acuity webhook signature") >>), 401)
        ELSE IF action = << >>
        THEN answer(Emit(r1, << Log("warn", "Ignoring webhook with missing action") >>), 200)
        ELSE IF ~isOrderCompleted /\ ~isOrderCancellation
        THEN answer(Emit(r1, << Log("info", "Ignoring webhook action") >>), 200)
        ELSE IF bodyId = << >>
        THEN answer(Emit(r1, << Log("error", "No order ID in webhook payload") >>), 400)
        ELSE IF isOrderCancellation
        THEN processMembershipCancellation(r1, fetched)
        ELSE processNewMembershipOrder(r1, fetched)

Webhook(method, readable, signature, bodyAction, bodyId) ==
    /\ \E n \in Answers :
          LET r == handler(method, readable, signature, bodyAction, bodyId, n)
          IN  /\ IF r.kind # "none" /\ n = 0 THEN Fault ELSE NoFault
              /\ runs' = Append(runs, r)
    /\ UNCHANGED << logList, cfg, wallet, nextId, mapping, redisFlag, inMemoryWebhookEnabled >>

(***************************************************************************)
(* Steps: one network request each, with the code that follows it          *)
(***************************************************************************)
\* the upsert with a catch that logs and goes on: the mapping is stored and
\* success returned although the provider rejected the member
Upsert_CatchGoesOn(i) ==
    LET r == runs[i]
        old == MembersOf(r.body.externalId)
        id == IF old = {} THEN nextId ELSE (CHOOSE m \in old : TRUE).id
    IN  /\ r.pc = "upsert"
        /\ \/ \E status \in { "ACTIVE" } \cup { m.status : m \in old } :
                /\ NoFault
                /\ wallet' = UpsertMember(wallet, r.body, id, status)
                /\ nextId' = IF old = {} THEN nextId + 1 ELSE nextId
                /\ runs' = [runs EXCEPT ![i] =
                      Emit([@ EXCEPT !.passKitId = id, !.pc = "storeMap"],
                           << [e |-> "put", purpose |-> "enroll", body |-> r.body,
                               ok |-> TRUE, id |-> id] >>)]
           \/ /\ Fault
              /\ runs' = [runs EXCEPT ![i] =
                      Emit([@ EXCEPT !.pc = "storeMap"],
                           << [e |-> "put", purpose |-> "enroll", body |-> r.body,
                               ok |-> FALSE, id |-> 0],
                              Log("error", "Failed to create PassKit member") >>)]
              /\ UNCHANGED << wallet, nextId >>
        /\ UNCHANGED << logList, cfg, mapping, redisFlag, inMemoryWebhookEnabled >>

\* passKitRequest('PUT', '/members/member', memberData) and its catch
Upsert(i) ==
    LET r == runs[i]
        old == MembersOf(r.body.externalId)
        id == IF old = {} THEN nextId ELSE (CHOOSE m \in old : TRUE).id
    IN  /\ r.pc = "upsert"
        /\ \/ \E status \in { "ACTIVE" } \cup { m.status : m \in old } :
                /\ NoFault
                /\ wallet' = UpsertMember(wallet, r.body, id, status)
                /\ nextId' = IF old = {} THEN nextId + 1 ELSE nextId
                /\ runs' = [runs EXCEPT ![i] =
                      Emit([@ EXCEPT !.passKitId = id, !.pc = "storeMap"],
                           << [e |-> "put", purpose |-> "enroll", body |-> r.body,
                               ok |-> TRUE, id |-> id] >>)]
           \/ /\ Fault
              /\ runs' = [runs EXCEPT ![i] =
                      Throw(Emit(@, << [e |-> "put", purpose |-> "enroll", body |-> r.body,
                                        ok |-> FALSE, id |-> 0],
                                       Log("error", "Failed to create PassKit member") >>),
                            "upsert_rejected")]
              /\ UNCHANGED << wallet, nextId >>
        /\ UNCHANGED << logList, cfg, mapping, redisFlag, inMemoryWebhookEnabled >>

\* the mapping stored without the try around it: a failed redis.set reaches
\* the catch of the enrolment, which logs and rethrows
StoreMapping_Raises(i) ==
    LET r == runs[i]
        done(events) ==
            Return(Emit(r, events \o << Log("info", "Successfully created PassKit member!") >>),
                   [Pending EXCEPT !.status = "success", !.passKitId = r.passKitId,
                                   !.member = r.body.displayName])
    IN  /\ r.pc = "storeMap"
        /\ \/ /\ ~cfg.redis
              /\ NoFault
              /\ runs' = [runs EXCEPT ![i] = done(<< >>)]
              /\ UNCHANGED mapping
           \/ /\ cfg.redis
              /\ NoFault
              /\ mapping' = storeCertificateOrderMapping(mapping, r.code, r.orderId)
              /\ runs' = [runs EXCEPT ![i] =
                    done(<< [e |-> "mapSet", key |-> r.code, value |-> r.orderId,
                             ok |-> TRUE] >>)]
           \/ /\ cfg.redis
              /\ Fault
              /\ runs' = [runs EXCEPT ![i] =
                    Throw(Emit(r, << [e |-> "mapSet", key |-> r.code, value |-> r.orderId,
                                      ok |-> FALSE],
                                     Log("error", "Failed to create PassKit member") >>),
                          "mapping_rejected")]
              /\ UNCHANGED mapping
        /\ UNCHANGED << logList, cfg, wallet, nextId, redisFlag, inMemoryWebhookEnabled >>

\* storeCertificateOrderMapping(certificateCode, orderId), then the success return
StoreMapping(i) ==
    LET r == runs[i]
        done(events) ==
            Return(Emit(r, events \o << Log("info", "Successfully created PassKit member!") >>),
                   [Pending EXCEPT !.status = "success", !.passKitId = r.passKitId,
                                   !.member = r.body.displayName])
    IN  /\ r.pc = "storeMap"
        /\ \/ /\ ~cfg.redis
              /\ NoFault
              /\ runs' = [runs EXCEPT ![i] = done(<< >>)]
              /\ UNCHANGED mapping
           \/ /\ cfg.redis
              /\ NoFault
              /\ mapping' = storeCertificateOrderMapping(mapping, r.code, r.orderId)
              /\ runs' = [runs EXCEPT ![i] =
                    done(<< [e |-> "mapSet", key |-> r.code, value |-> r.orderId,
                             ok |-> TRUE] >>)]
           \/ /\ cfg.redis
              /\ Fault
              /\ runs' = [runs EXCEPT ![i] =
                    done(<< [e |-> "mapSet", key |-> r.code, value |-> r.orderId,
                             ok |-> FALSE] >>)]
              /\ UNCHANGED mapping
        /\ UNCHANGED << logList, cfg, wallet, nextId, redisFlag, inMemoryWebhookEnabled >>

LookupNo(pc) == CASE pc = "lookup1" -> 1 [] pc = "lookup2" -> 2 [] pc = "lookup3" -> 3
                  [] OTHER -> 0

\* findPassKitMemberByExternalId with one try/catch around the three attempts:
\* the first attempt that throws ends the search with no member
Lookup_OneCatch(i) ==
    LET r == runs[i]
        n == LookupNo(r.pc)
        event(out) == [e |-> "lookup", n |-> n, externalId |-> r.code, out |-> out]
        null(out) == [Emit(r, << event(out) >>) EXCEPT !.pc = "removeMap",
                                                       !.method = "member_not_found",
                                                       !.passKitId = 0]
        miss(out) ==
            CASE n = 1 -> [Emit(r, << event(out) >>) EXCEPT !.pc = "lookup2"]
              [] n = 2 -> [Emit(r, << event(out) >>) EXCEPT !.pc = "lookup3"]
              [] OTHER -> null(out)
    IN  /\ n > 0
        /\ \/ \E m \in MembersOf(r.code) :
                /\ NoFault
                /\ runs' = [runs EXCEPT ![i] =
                      Emit([@ EXCEPT !.member = m.id, !.pc = "statusUpdate"],
                           << event("found") >>)]
           \/ NoFault /\ runs' = [runs EXCEPT ![i] = miss("none")]
           \/ Fault /\ runs' = [runs EXCEPT ![i] = null("throw")]
        /\ UNCHANGED << logList, cfg, wallet, nextId, mapping, redisFlag, inMemoryWebhookEnabled >>

\* findPassKitMemberByExternalId: the direct lookup and the two filtered searches
Lookup(i) ==
    LET r == runs[i]
        n == LookupNo(r.pc)
        miss(out) ==
            LET r1 == Emit(r, << [e |-> "lookup", n |-> n, externalId |-> r.code,
                                  out |-> out] >>)
            IN  CASE n = 1 -> [r1 EXCEPT !.pc = "lookup2"]
                  [] n = 2 -> [r1 EXCEPT !.pc = "lookup3"]
                  [] OTHER -> [r1 EXCEPT !.pc = "removeMap", !.method = "member_not_found",
                                         !.passKitId = 0]
    IN  /\ n > 0
        /\ \/ \E m \in MembersOf(r.code) :
                /\ NoFault
                /\ runs' = [runs EXCEPT ![i] =
                      Emit([@ EXCEPT !.member = m.id, !.pc = "statusUpdate"],
                           << [e |-> "lookup", n |-> n, externalId |-> r.code,
                               out |-> "found"] >>)]
           \/ NoFault /\ runs' = [runs EXCEPT ![i] = miss("none")]
           \/ Fault /\ runs' = [runs EXCEPT ![i] = miss("throw")]
        /\ UNCHANGED << logList, cfg, wallet, nextId, mapping, redisFlag, inMemoryWebhookEnabled >>

\* the status update without its catch: a rejected update propagates
StatusUpdate_NoFallback(i) ==
    LET r == runs[i]
        body == [id |-> r.member, externalId |-> r.code, status |-> "CANCELLED"]
    IN  /\ r.pc = "statusUpdate"
        /\ \/ /\ \E m \in wallet : m.id = r.member
              /\ NoFault
              /\ wallet' = CancelMember(wallet, r.member)
              /\ runs' = [runs EXCEPT ![i] =
                    Emit([@ EXCEPT !.method = "status_update", !.passKitId = r.member,
                                   !.pc = "removeMap"],
                         << [e |-> "put", purpose |-> "cancel", body |-> body,
                             ok |-> TRUE, id |-> r.member] >>)]
           \/ /\ Fault
              /\ runs' = [runs EXCEPT ![i] =
                    Throw(Emit(@, << [e |-> "put", purpose |-> "cancel", body |-> body,
                                      ok |-> FALSE, id |-> 0] >>),
                          "status_update_rejected")]
              /\ UNCHANGED wallet
        /\ UNCHANGED << logList, cfg, nextId, mapping, redisFlag, inMemoryWebhookEnabled >>

\* passKitRequest('PUT', '/members/member', cancellationPayload) and its catch
StatusUpdate(i) ==
    LET r == runs[i]
        body == [id |-> r.member, externalId |-> r.code, status |-> "CANCELLED"]
    IN  /\ r.pc = "statusUpdate"
        /\ \/ /\ \E m \in wallet : m.id = r.member
              /\ NoFault
              /\ wallet' = CancelMember(wallet, r.member)
              /\ runs' = [runs EXCEPT ![i] =
                    Emit([@ EXCEPT !.method = "status_update", !.passKitId = r.member,
                                   !.pc = "removeMap"],
                         << [e |-> "put", purpose |-> "cancel", body |-> body,
                             ok |-> TRUE, id |-> r.member] >>)]
           \/ /\ Fault
              /\ runs' = [runs EXCEPT ![i] =
                    Emit([@ EXCEPT !.pc = "delete"],
                         << [e |-> "put", purpose |-> "cancel", body |-> body, ok |-> FALSE,
                             id |-> 0],
                            Log("warn", "PassKit status update to CANCELLED failed, trying delete fallback") >>)]
              /\ UNCHANGED wallet
        /\ UNCHANGED << logList, cfg, nextId, mapping, redisFlag, inMemoryWebhookEnabled >>

\* the delete fallback with its failure caught: the run goes on as if the
\* member had been deleted
Delete_FailureCaught(i) ==
    LET r == runs[i]
    IN  /\ r.pc = "delete"
        /\ \/ /\ \E m \in wallet : m.id = r.member
              /\ NoFault
              /\ wallet' = DeleteMember(wallet, r.member)
              /\ runs' = [runs EXCEPT ![i] =
                    Emit([@ EXCEPT !.method = "delete", !.passKitId = r.member,
                                   !.pc = "removeMap"],
                         << [e |-> "delete", id |-> r.member, ok |-> TRUE] >>)]
           \/ /\ Fault
              /\ runs' = [runs EXCEPT ![i] =
                    Emit([@ EXCEPT !.method = "delete", !.passKitId = r.member,
                                   !.pc = "removeMap"],
                         << [e |-> "delete", id |-> r.member, ok |-> FALSE] >>)]
              /\ UNCHANGED wallet
        /\ UNCHANGED << logList, cfg, nextId, mapping, redisFlag, inMemoryWebhookEnabled >>

\* passKitRequest('DELETE', '/members/member', { id: member.id })
Delete(i) ==
    LET r == runs[i]
    IN  /\ r.pc = "delete"
        /\ \/ /\ \E m \in wallet : m.id = r.member
              /\ NoFault
              /\ wallet' = DeleteMember(wallet, r.member)
              /\ runs' = [runs EXCEPT ![i] =
                    Emit([@ EXCEPT !.method = "delete", !.passKitId = r.member,
                                   !.pc = "removeMap"],
                         << [e |-> "delete", id |-> r.member, ok |-> TRUE] >>)]
           \/ /\ Fault
              /\ runs' = [runs EXCEPT ![i] =
                    Throw(Emit(@, << [e |-> "delete", id |-> r.member, ok |-> FALSE] >>),
                          "delete_rejected")]
              /\ UNCHANGED wallet
        /\ UNCHANGED << logList, cfg, nextId, mapping, redisFlag, inMemoryWebhookEnabled >>

\* removeCertificateOrderMapping(code), the closing log entry and the return
RemoveMapping(i) ==
    LET r == runs[i]
        done(events) ==
            FinishCancel(Emit(r, events \o << Log("info", "Membership cancellation processed") >>))
    IN  /\ r.pc = "removeMap"
        /\ \/ /\ ~cfg.redis
              /\ NoFault
              /\ runs' = [runs EXCEPT ![i] = done(<< >>)]
              /\ UNCHANGED mapping
           \/ /\ cfg.redis
              /\ NoFault
              /\ mapping' = removeCertificateOrderMapping(mapping, r.code)
              /\ runs' = [runs EXCEPT ![i] =
                    done(<< [e |-> "mapDel", key |-> r.code, ok |-> TRUE] >>)]
           \/ /\ cfg.redis
              /\ Fault
              /\ runs' = [runs EXCEPT ![i] =
                    done(<< [e |-> "mapDel", key |-> r.code, ok |-> FALSE] >>)]
              /\ UNCHANGED mapping
        /\ UNCHANGED << logList, cfg, wallet, nextId, redisFlag, inMemoryWebhookEnabled >>

(***************************************************************************)
(* Specifications                                                          *)
(***************************************************************************)
DefaultConfig ==
    [programId |-> TRUE, filter |-> << >>, redis |-> TRUE, acuityKey |-> TRUE]

\* the deployments considered: the default one and those that differ in one setting
Configs ==
    { DefaultConfig,
      [DefaultConfig EXCEPT !.programId = FALSE],
      [DefaultConfig EXCEPT !.redis = FALSE],
      [DefaultConfig EXCEPT !.filter = T.goldPlatinum],
      [DefaultConfig EXCEPT !.filter = T.goldComma] }

ExistingMember ==
    [id |-> 1, externalId |-> T.codeUpper, status |-> "ACTIVE", tierId |-> TIER_ID,
     displayName |-> T.Tina \o << " " >> \o T.Cevizovic, acuityOrderId |-> T.order42,
     certificateCode |-> T.codeUpper]

CodeInputs == { T.codeLowerPadded, T.codeShort, T.codeDash }

\* the wallet and the mapping store before the first invocation: empty, or
\* holding the member and the mapping an earlier enrollment of order 42 left
InitStores ==
    /\ \/ wallet = {} /\ mapping = {}
       \/ /\ wallet = { ExistingMember }
          /\ mapping = { [key |-> T.codeUpper, value |-> T.order42,
                          ex |-> CERT_TO_ORDER_TTL_SECONDS] }
    /\ nextId = 2
    /\ logList = << >>
    /\ redisFlag = "unset"
    /\ inMemoryWebhookEnabled = "unset"
    /\ runs = << >>

Init ==
    /\ cfg \in Configs
    /\ InitStores
    /\ faults = 0

Step(i) ==
    \/ Upsert(i)
    \/ StoreMapping(i)
    \/ Lookup(i)
    \/ StatusUpdate(i)
    \/ Delete(i)
    \/ RemoveMapping(i)

\* the engine: calls of its three exported operations, interleaved at their
\* wallet and store requests
Next ==
    \/ Call(MaxRuns) /\ \E orderId \in OrderIds : StartEnroll(orderId, Answers)
    \/ Call(MaxRuns) /\ \E orderId \in OrderIds : StartCancelOrder(orderId, CancellationAnswers)
    \/ Call(MaxRuns) /\ \E certificateCode \in CodeInputs : StartCancelCode(certificateCode)
    \/ Call(MaxRuns) /\ \E certificateCode \in CodeInputs : StartResolve(certificateCode)
    \/ \E i \in DOMAIN runs : Step(i)

Spec == Init /\ [][Next]_vars

\* the webhook receiver and the operator's toggle
NextWebhook ==
    \/ /\ Call(MaxRuns)
       /\ \E method \in { "POST", "GET" }, readable \in BOOLEAN,
             signature \in { "absent", "match", "mismatch" },
             bodyAction \in { T.orderCompleted, T.orderCancelledRaw, T.orderCanceled,
                              T.otherAction, << >> },
             bodyId \in { T.order42, << >> } :
            Webhook(method, readable, signature, bodyAction, bodyId)
    \/ \E enabled \in BOOLEAN : SetWebhookEnabled(enabled)
    \/ \E i \in DOMAIN runs : Step(i)

SpecWebhook == Init /\ [][NextWebhook]_vars

\* what the booking API answers a delivery's run: a failure, the active
\* order, the order without a valid code
ReceiverAnswers == { 0, 1, 3 }

\* the deliveries: every signature, action and order id in a readable POST,
\* a GET, and a POST whose body cannot be read
Deliveries ==
    [method : { "POST" }, readable : { TRUE }, signature : { "absent", "match", "mismatch" },
     action : { T.orderCompleted, T.orderCancelledRaw, T.orderCanceled, T.otherAction,
                << >> },
     id : { T.order42, << >> }]
    \cup [method : { "GET" }, readable : { TRUE }, signature : { "absent" },
          action : { T.orderCompleted }, id : { T.order42 }]
    \cup [method : { "POST" }, readable : { FALSE }, signature : { "absent" },
          action : { T.orderCompleted }, id : { T.order42 }]

\* one delivery to the receiver of the default deployment
Deliver(method, readable, signature, bodyAction, bodyId) ==
    /\ \E n \in ReceiverAnswers :
          LET r == handler(method, readable, signature, bodyAction, bodyId, n)
          IN  /\ IF r.kind # "none" /\ n = 0 THEN Fault ELSE NoFault
              /\ runs' = Append(runs, r)
    /\ UNCHANGED << logList, cfg, wallet, nextId, mapping, redisFlag, inMemoryWebhookEnabled >>

InitReceiver ==
    /\ cfg = DefaultConfig
    /\ InitStores
    /\ faults = 0

\* the receiver alone: deliveries and the runs they invoke
NextReceiver ==
    \/ /\ Call(MaxRuns)
       /\ \E d \in Deliveries :
            Deliver(d.method, d.readable, d.signature, d.action, d.id)
    \/ \E i \in DOMAIN runs : Step(i)

SpecReceiver == InitReceiver /\ [][NextReceiver]_vars

\* repeated calls for one certificate code in the default deployment: enrolling
\* order 42 (reported active or cancelled) and cancelling its code
StartRepeat ==
    \/ StartEnroll(T.order42, {1, 2})
    \/ StartCancelCode(T.codeLowerPadded)

Idle == \A i \in DOMAIN runs : runs[i].pc = "done"

InitRepeat ==
    /\ cfg = DefaultConfig
    /\ InitStores
    /\ faults = 0

\* the calls made one after another
NextRepeat ==
    \/ Call(MaxRepeat) /\ Idle /\ StartRepeat
    \/ \E i \in DOMAIN runs : Step(i)

SpecRepeat == InitRepeat /\ [][NextRepeat]_vars

\* an environment in which no request fails: the budget of failures is used up
InitRace ==
    /\ cfg = DefaultConfig
    /\ InitStores
    /\ faults = MaxFaults

\* the calls interleaved at their requests
NextRace ==
    \/ Call(MaxRepeat) /\ StartRepeat
    \/ \E i \in DOMAIN runs : Step(i)

SpecRace == InitRace /\ [][NextRace]_vars

(***************************************************************************)
(* extractCertificateCode called by itself on a value built field by field *)
(***************************************************************************)
\* the objects of the built value, which holds at most MaxFields fields
ExtractObjects == 1 .. 2

MaxFields == 3

\* what the argument is: nothing, a primitive, or the first of the objects
ExtractRoots == { Undef, Null, Num(12345678), Str(T.codeUpper), Bool(TRUE), Ref(1) }

\* keys of the direct candidates, a key only the fallback loop accepts, and
\* a key it does not
ExtractKeys == { K.certificate, K.code, K.voucherGift, K.details }

\* a code to be trimmed, a malformed one, a value that is not a string, and
\* the objects themselves: a field may hold the object it belongs to
ExtractValues ==
    { Str(T.codeLowerPadded), Str(T.codeDash), Null } \cup { Ref(o) : o \in ExtractObjects }

\* const order = <root>, every object still empty
StartExtract(root) ==
    /\ runs = << >>
    /\ runs' = << [NewRun("direct", << >>, TRUE) EXCEPT
                     !.kind = "extract", !.pc = "build",
                     !.arg = [root |-> root,
                              heap |-> IF root.t = "ref"
                                       THEN [o \in ExtractObjects |-> << >>]
                                       ELSE << >>]] >>
    /\ UNCHANGED << logList, cfg, wallet, nextId, mapping, redisFlag, inMemoryWebhookEnabled, faults >>

\* <object o>[key] = value, for a key the object does not have yet
SetField(i, o, key, value) ==
    LET r == runs[i]
        fields == UNION { { << n, f >> : f \in DOMAIN r.arg.heap[n] } :
                              n \in DOMAIN r.arg.heap }
    IN  /\ r.kind = "extract"
        /\ r.pc = "build"
        /\ o \in DOMAIN r.arg.heap
        /\ Cardinality(fields) < MaxFields
        /\ \A n \in DOMAIN r.arg.heap[o] : r.arg.heap[o][n].k # key
        /\ runs' = [runs EXCEPT ![i].arg.heap[o] = Append(@, E(key, value))]
        /\ UNCHANGED << logList, cfg, wallet, nextId, mapping, redisFlag, inMemoryWebhookEnabled,
                        faults >>

\* extractCertificateCode(order)
Extract(i) ==
    LET r == runs[i]
    IN  /\ r.kind = "extract"
        /\ r.pc = "build"
        /\ runs' = [runs EXCEPT ![i].out = extractCertificateCode(r.arg),
                                ![i].pc = "done"]
        /\ UNCHANGED << logList, cfg, wallet, nextId, mapping, redisFlag, inMemoryWebhookEnabled,
                        faults >>

InitExtract ==
    /\ cfg = DefaultConfig
    /\ wallet = {}
    /\ mapping = {}
    /\ nextId = 2
    /\ logList = << >>
    /\ redisFlag = "unset"
    /\ inMemoryWebhookEnabled = "unset"
    /\ runs = << >>
    /\ faults = 0

NextExtract ==
    \/ \E root \in ExtractRoots : StartExtract(root)
    \/ \E i \in DOMAIN runs, o \in ExtractObjects, key \in ExtractKeys,
           value \in ExtractValues :
            SetField(i, o, key, value)
    \/ \E i \in DOMAIN runs : Extract(i)

SpecExtract == InitExtract /\ [][NextExtract]_vars

(***************************************************************************)
(* evaluateOrderActivity called by itself                                  *)
(***************************************************************************)
\* what a cancellation flag holds: nothing, a boolean, a number, a string
FlagValues == { Undef, Bool(TRUE), Bool(FALSE), Num(1), Num(2), Str(T.yesPadded) }

\* what the field active holds
ActiveValues == { Undef, Bool(FALSE), Bool(TRUE), Num(0) }

\* what a status field holds
StatusValues ==
    { Undef, Str(T.Cancelled), Str(T.expiresSoon), Str(K.active), Str(T.blank), Num(5) }

\* the object with the fields that hold something
OrderWith(fields) ==
    LET Held(field) == field.v # Undef
    IN  [root |-> Ref(1), heap |-> << SelectSeq(fields, Held) >>]

\* the order to classify: nothing, or an object with the first and the last
\* cancellation flag, active, and the first and the last status field
InitActivity ==
    /\ cfg = DefaultConfig
    /\ wallet = {}
    /\ mapping = {}
    /\ nextId = 2
    /\ logList = << >>
    /\ redisFlag = "unset"
    /\ inMemoryWebhookEnabled = "unset"
    /\ faults = 0
    /\ \E order \in { [root |-> Null, heap |-> << >>], [root |-> Undef, heap |-> << >>] }
            \cup { OrderWith(<< E(K.cancelled, cancelled), E(K.isCanceled, isCanceled),
                                E(K.active, active), E(K.status, status),
                                E(K.membershipStatus, membershipStatus) >>) :
                        cancelled \in FlagValues, isCanceled \in FlagValues,
                        active \in ActiveValues, status \in StatusValues,
                        membershipStatus \in StatusValues } :
          runs = << [NewRun("direct", << >>, TRUE) EXCEPT
                        !.kind = "classify", !.pc = "build", !.arg = order] >>

\* evaluateOrderActivity(order)
Classify(i) ==
    LET r == runs[i]
    IN  /\ r.kind = "classify"
        /\ r.pc = "build"
        /\ runs' = [runs EXCEPT ![i].out = evaluateOrderActivity(r.arg),
                                ![i].pc = "done"]
        /\ UNCHANGED << logList, cfg, wallet, nextId, mapping, redisFlag, inMemoryWebhookEnabled,
                        faults >>

NextActivity == \E i \in DOMAIN runs : Classify(i)

SpecActivity == InitActivity /\ [][NextActivity]_vars

(***************************************************************************)
(* normalizeCertificateCode called by itself                               *)
(***************************************************************************)
\* a lower-case letter, an upper-case letter and a digit
CodeChars == { "a", "Z", "7" }

\* every text of CodeLen of these characters, alone or with a blank before
\* or after it, and three texts that are no certificate code
NormalizeInputs ==
    { before \o [n \in 1 .. CodeLen |-> text[n]] \o after :
        text \in [1 .. CodeLen -> CodeChars],
        before \in { << >>, T.blank }, after \in { << >>, T.blank } }
        \cup { << >>, T.codeShort, T.codeDash }

InitNormalize ==
    /\ cfg = DefaultConfig
    /\ wallet = {}
    /\ mapping = {}
    /\ nextId = 2
    /\ logList = << >>
    /\ redisFlag = "unset"
    /\ inMemoryWebhookEnabled = "unset"
    /\ faults = 0
    /\ \E value \in NormalizeInputs :
          runs = << [NewRun("direct", << >>, TRUE) EXCEPT
                        !.kind = "normalize", !.pc = "build", !.arg = value] >>

\* normalizeCertificateCode(value)
Normalize(i) ==
    LET r == runs[i]
    IN  /\ r.kind = "normalize"
        /\ r.pc = "build"
        /\ runs' = [runs EXCEPT ![i].out = Str(normalizeCertificateCode(Str(r.arg))),
                                ![i].pc = "done"]
        /\ UNCHANGED << logList, cfg, wallet, nextId, mapping, redisFlag, inMemoryWebhookEnabled,
                        faults >>

NextNormalize == \E i \in DOMAIN runs : Normalize(i)

SpecNormalize == InitNormalize /\ [][NextNormalize]_vars

(***************************************************************************)
(* The webhook-toggle endpoint                                             *)
(***************************************************************************)
\* at most MaxToggles requests to the endpoint
MaxToggles == 3

\* parseToggleValue(req.query.enabled): true, false, or null ("none")
ToggleValues == { "true", "false", "none" }

\* GET or POST /api/webhook-toggle?enabled=...; readFails and writeFails say
\* whether the backend fails the redis.get and the redis.set of the request
Toggle(method, parsed, readFails, writeFails) ==
    LET reads == inMemoryWebhookEnabled = "unset" /\ cfg.redis
        current == IF reads /\ readFails THEN getWebhookDefaultEnabled ELSE getWebhookEnabled
        next == IF parsed = "none" THEN ~current ELSE parsed = "true"
        nextValue == IF next THEN "true" ELSE "false"
        writes == method = "POST" /\ cfg.redis
        read == IF reads THEN << [e |-> "flagGet", ok |-> ~readFails] >> ELSE << >>
        write == IF writes
                 THEN << [e |-> "flagSet", value |-> nextValue, ok |-> ~writeFails] >>
                 ELSE << >>
        r == [NewRun("toggle", << >>, current) EXCEPT
                 !.kind = "toggle", !.pc = "done",
                 !.arg = [method |-> method, parsed |-> parsed]]
        failures == (IF readFails THEN 1 ELSE 0) + (IF writeFails THEN 1 ELSE 0)
    IN  /\ readFails => reads
        /\ writeFails => writes
        /\ faults + failures <= MaxFaults
        /\ faults' = faults + failures
        /\ IF method = "GET"
           THEN /\ runs' = Append(runs, [r EXCEPT !.trace = read, !.http = 200,
                                                  !.out = Bool(current),
                                                  !.result.status = "success"])
                /\ UNCHANGED << redisFlag, inMemoryWebhookEnabled >>
           ELSE IF writes /\ writeFails
           THEN /\ runs' = Append(runs, [r EXCEPT !.trace = read \o write, !.http = 500,
                                                  !.result.status = "error",
                                                  !.result.error = "flag_store_failed"])
                /\ UNCHANGED << redisFlag, inMemoryWebhookEnabled >>
           ELSE /\ runs' = Append(runs, [r EXCEPT !.trace = read \o write, !.http = 200,
                                                  !.out = Bool(next),
                                                  !.result.status = "success"])
                /\ redisFlag' = IF writes THEN nextValue ELSE redisFlag
                /\ inMemoryWebhookEnabled' = nextValue
        /\ UNCHANGED << logList, cfg, wallet, nextId, mapping >>

\* a fresh instance of the endpoint: nothing kept in memory, the backend
\* holding no flag or the flag an earlier instance stored
InitToggle ==
    /\ cfg \in { DefaultConfig, [DefaultConfig EXCEPT !.redis = FALSE] }
    /\ wallet = {}
    /\ mapping = {}
    /\ nextId = 2
    /\ logList = << >>
    /\ redisFlag \in { "unset", "false" }
    /\ inMemoryWebhookEnabled = "unset"
    /\ runs = << >>
    /\ faults = 0

NextToggle ==
    \/ Call(MaxToggles) /\ \E readFails \in BOOLEAN : Toggle("GET", "none", readFails, FALSE)
    \/ Call(MaxToggles) /\ \E parsed \in ToggleValues, readFails \in BOOLEAN,
                               writeFails \in BOOLEAN :
            Toggle("POST", parsed, readFails, writeFails)

SpecToggle == InitToggle /\ [][NextToggle]_vars

(***************************************************************************)
(* The activity log's sink by itself.  In the specifications above a run's *)
(* log entries are kept in its trace.                                      *)
(***************************************************************************)
MAX_LOG_ENTRIES == 100

\* at most MaxAppends calls of appendLog and getLogs
MaxAppends == 3

\* the list holding the n entries 1 .. n, the newest first
Recent(n) == [k \in 1 .. n |-> n - k + 1]

\* redis.ltrim(key, 0, stop)
ltrim(list, stop) == SubSeq(list, 1, IF Len(list) <= stop + 1 THEN Len(list) ELSE stop + 1)

\* appendLog(level, message, data) up to its first request
StartAppend ==
    /\ runs' = Append(runs, [NewRun("direct", << >>, TRUE) EXCEPT
                                !.kind = "appendLog",
                                !.pc = IF cfg.redis THEN "lpush" ELSE "done",
                                !.result.status = IF cfg.redis THEN "pending" ELSE "success"])
    /\ UNCHANGED << logList, cfg, wallet, nextId, mapping, redisFlag, inMemoryWebhookEnabled,
                    faults >>

\* redis.lpush(LOG_REDIS_KEY, entry); a failure ends the call in its catch
Lpush(i) ==
    LET r == runs[i]
        \* entries are numbered in the order of their push
        entry == IF logList = << >> THEN 1 ELSE logList[1] + 1
    IN  /\ r.kind = "appendLog"
        /\ r.pc = "lpush"
        /\ \/ /\ NoFault
              /\ logList' = << entry >> \o logList
              /\ runs' = [runs EXCEPT ![i] =
                    Emit([@ EXCEPT !.pc = "ltrim"],
                         << [e |-> "lpush", entry |-> entry, ok |-> TRUE] >>)]
           \/ /\ Fault
              /\ runs' = [runs EXCEPT ![i] =
                    Emit([@ EXCEPT !.pc = "done", !.result.status = "success"],
                         << [e |-> "lpush", entry |-> entry, ok |-> FALSE] >>)]
              /\ UNCHANGED logList
        /\ UNCHANGED << cfg, wallet, nextId, mapping, redisFlag, inMemoryWebhookEnabled >>

\* the trim with MAX_LOG_ENTRIES as its stop: one entry more is kept
Ltrim_StopAtMax(i) ==
    LET r == runs[i]
    IN  /\ r.kind = "appendLog"
        /\ r.pc = "ltrim"
        /\ \/ /\ NoFault
              /\ logList' = ltrim(logList, MAX_LOG_ENTRIES)
              /\ runs' = [runs EXCEPT ![i] =
                    Emit([@ EXCEPT !.pc = "done", !.result.status = "success"],
                         << [e |-> "ltrim", ok |-> TRUE] >>)]
           \/ /\ Fault
              /\ runs' = [runs EXCEPT ![i] =
                    Emit([@ EXCEPT !.pc = "done", !.result.status = "success"],
                         << [e |-> "ltrim", ok |-> FALSE] >>)]
              /\ UNCHANGED logList
        /\ UNCHANGED << cfg, wallet, nextId, mapping, redisFlag, inMemoryWebhookEnabled >>

\* redis.ltrim(LOG_REDIS_KEY, 0, MAX_LOG_ENTRIES - 1), then the return
Ltrim(i) ==
    LET r == runs[i]
    IN  /\ r.kind = "appendLog"
        /\ r.pc = "ltrim"
        /\ \/ /\ NoFault
              /\ logList' = ltrim(logList, MAX_LOG_ENTRIES - 1)
              /\ runs' = [runs EXCEPT ![i] =
                    Emit([@ EXCEPT !.pc = "done", !.result.status = "success"],
                         << [e |-> "ltrim", ok |-> TRUE] >>)]
           \/ /\ Fault
              /\ runs' = [runs EXCEPT ![i] =
                    Emit([@ EXCEPT !.pc = "done", !.result.status = "success"],
                         << [e |-> "ltrim", ok |-> FALSE] >>)]
              /\ UNCHANGED logList
        /\ UNCHANGED << cfg, wallet, nextId, mapping, redisFlag, inMemoryWebhookEnabled >>

\* getLogs(): redis.lrange(LOG_REDIS_KEY, 0, MAX_LOG_ENTRIES - 1), or [] when
\* there is no backend or the request fails
GetLogs ==
    LET r == [NewRun("direct", << >>, TRUE) EXCEPT
                 !.kind = "getLogs", !.pc = "done", !.result.status = "success"]
    IN  /\ \/ /\ ~cfg.redis
              /\ NoFault
              /\ runs' = Append(runs, [r EXCEPT !.out = << >>])
           \/ /\ cfg.redis
              /\ NoFault
              /\ runs' = Append(runs,
                    [r EXCEPT !.out = ltrim(logList, MAX_LOG_ENTRIES - 1),
                              !.trace = << [e |-> "lrange", ok |-> TRUE] >>])
           \/ /\ cfg.redis
              /\ Fault
              /\ runs' = Append(runs,
                    [r EXCEPT !.out = << >>, !.trace = << [e |-> "lrange", ok |-> FALSE] >>])
        /\ UNCHANGED << logList, cfg, wallet, nextId, mapping, redisFlag,
                        inMemoryWebhookEnabled >>

\* the persisted log before the first call: empty, one entry short of the
\* cap, or at the cap
InitLog ==
    /\ cfg \in { DefaultConfig, [DefaultConfig EXCEPT !.redis = FALSE] }
    /\ wallet = {}
    /\ mapping = {}
    /\ nextId = 2
    /\ redisFlag = "unset"
    /\ inMemoryWebhookEnabled = "unset"
    /\ runs = << >>
    /\ faults = 0
    /\ logList \in { << >>, Recent(MAX_LOG_ENTRIES - 1), Recent(MAX_LOG_ENTRIES) }

NextLog ==
    \/ Call(MaxAppends) /\ StartAppend
    \/ Call(MaxAppends) /\ GetLogs
    \/ \E i \in DOMAIN runs : Lpush(i)
    \/ \E i \in DOMAIN runs : Ltrim(i)

SpecLog == InitLog /\ [][NextLog]_vars

(***************************************************************************)
(* The Resolver's payload parser, called by itself.  A response body is a  *)
(* JSON value: its objects and lists are held in the value itself.         *)
(***************************************************************************)
\* an object with the given properties, and a list with the given elements
Obj(f) == [t |-> "obj", f |-> f]

Arr(a) == [t |-> "arr", a |-> a]

\* value?.[key] for a property name
Prop(v, key) == IF v.t = "obj" /\ key \in DOMAIN v.f THEN v.f[key] ELSE Undef

\* a || b
Or(a, b) == IF Truthy(a) THEN a ELSE b

\* toMemberRef reading candidate.id only
toMemberRef_IdOnly(candidate) ==
    IF ~Truthy(candidate) \/ candidate.t \notin { "obj", "arr" } THEN Null
    ELSE LET id == Or(Prop(candidate, "id"), Null)
         IN  IF ~Truthy(id) THEN Null
             ELSE [t |-> "memberRef", id |-> JsString(id),
                   emailAddress |-> Or(Prop(Prop(candidate, "person"), "emailAddress"),
                                       Or(Prop(candidate, "emailAddress"), Null)),
                   externalId |-> Or(Prop(candidate, "externalId"), Null)]

toMemberRef(candidate) ==
    IF ~Truthy(candidate) \/ candidate.t \notin { "obj", "arr" } THEN Null
    ELSE LET id == Or(Prop(candidate, "id"), Or(Prop(candidate, "memberId"), Null))
         IN  IF ~Truthy(id) THEN Null
             ELSE [t |-> "memberRef", id |-> JsString(id),
                   emailAddress |-> Or(Prop(Prop(candidate, "person"), "emailAddress"),
                                       Or(Prop(candidate, "emailAddress"), Null)),
                   externalId |-> Or(Prop(candidate, "externalId"), Null)]

parseMemberRefFromPayload(data) ==
    LET IsTruthy(v) == Truthy(v)
        IsRef(v) == v # Null
        ArrayOrNull(v) == IF v.t = "arr" THEN v ELSE Null
        direct == toMemberRef(data)
        nestedCandidates ==
            SelectSeq(<< Prop(data, "member"), Prop(data, "item"), Prop(data, "result"),
                         IF Truthy(Prop(data, "data")) /\ Prop(data, "data").t # "arr"
                         THEN Prop(data, "data") ELSE Null >>, IsTruthy)
        nestedRefs ==
            SelectSeq([n \in DOMAIN nestedCandidates |-> toMemberRef(nestedCandidates[n])],
                      IsRef)
        directMemberIds == ArrayOrNull(Prop(data, "memberIds"))
        listCandidates ==
            SelectSeq(<< ArrayOrNull(data), ArrayOrNull(Prop(data, "members")),
                         ArrayOrNull(Prop(data, "results")), ArrayOrNull(Prop(data, "items")),
                         ArrayOrNull(Prop(data, "data")) >>, IsTruthy)
        row(rows) ==
            IF Len(rows.a) = 0 THEN Null
            ELSE IF rows.a[1].t = "str"
            THEN [t |-> "memberRef", id |-> rows.a[1].s, emailAddress |-> Null,
                  externalId |-> Null]
            ELSE toMemberRef(rows.a[1])
        rowRefs == SelectSeq([n \in DOMAIN listCandidates |-> row(listCandidates[n])], IsRef)
    IN  IF ~Truthy(data) THEN Null
        ELSE IF direct # Null THEN direct
        ELSE IF nestedRefs # << >> THEN nestedRefs[1]
        ELSE IF directMemberIds # Null /\ Len(directMemberIds.a) > 0
        THEN [t |-> "memberRef", id |-> JsString(directMemberIds.a[1]),
              emailAddress |-> Null, externalId |-> Null]
        ELSE IF rowRefs # << >> THEN rowRefs[1]
        ELSE Null

\* at most MaxProps properties in the object a response body is
MaxProps == 2

\* property values of a response body: members with id or memberId, an
\* object that is no member, lists, and values that are neither
ParseValues ==
    LET m1 == Obj([id |-> Str(<<"m","1">>), externalId |-> Str(T.codeUpper),
                   person |-> Obj([emailAddress |-> Str(<<"t","@","x">>)])])
        m2 == Obj([memberId |-> Num(7), emailAddress |-> Str(<<"u","@","x">>)])
        other == Obj([name |-> Str(T.Tina), id |-> Str(<< >>)])
    IN  { m1, m2, other, Null, Str(<<"m","3">>),
          Arr(<< >>), Arr(<< Str(<<"m","3">>) >>), Arr(<< other, m1 >>), Arr(<< m2, m1 >>),
          Arr(<< Null >>) }

\* response.data: nothing, a primitive, a list, or an object with at most
\* MaxProps of the properties the parser reads
ParsePayloads ==
    LET names == { "id", "member", "item", "result", "data", "memberIds", "members",
                   "results", "items" }
    IN  { Undef, Null, Str(<< >>), Str(<<"O","K">>), Num(0), Bool(TRUE) }
        \cup { v \in ParseValues : v.t = "arr" }
        \cup { Obj(f) : f \in UNION { [S -> ParseValues] :
                          S \in { S \in SUBSET names : Cardinality(S) <= MaxProps } } }

InitParse ==
    /\ cfg = DefaultConfig
    /\ wallet = {}
    /\ mapping = {}
    /\ nextId = 2
    /\ logList = << >>
    /\ redisFlag = "unset"
    /\ inMemoryWebhookEnabled = "unset"
    /\ faults = 0
    /\ \E data \in ParsePayloads :
          runs = << [NewRun("direct", << >>, TRUE) EXCEPT
                        !.kind = "parse", !.pc = "build", !.arg = data] >>

\* parseMemberRefFromPayload(response?.data)
Parse(i) ==
    LET r == runs[i]
    IN  /\ r.kind = "parse"
        /\ r.pc = "build"
        /\ runs' = [runs EXCEPT ![i].out = parseMemberRefFromPayload(r.arg),
                                ![i].pc = "done"]
        /\ UNCHANGED << logList, cfg, wallet, nextId, mapping, redisFlag, inMemoryWebhookEnabled,
                        faults >>

SpecParse == InitParse /\ [][\E i \in DOMAIN runs : Parse(i)]_vars

(***************************************************************************)
(* The manual endpoints: POST /api/process-order and                       *)
(* POST /api/cancel-membership, with the query values orderId and          *)
(* certificateCode                                                         *)
(***************************************************************************)
\* looksLikeCertificateCode of src/api/process-order.js, applied to a string:
\* /^(?=.*[A-Za-z])[A-Za-z0-9]{8}$/.test(value.trim())
looksLikeCertificateCode_processOrder(value) ==
    LET s == trim(value)
    IN  /\ Len(s) = CodeLen
        /\ \A i \in DOMAIN s : IsAlnumChar(s[i])
        /\ \E i \in DOMAIN s : s[i] \notin DigitChars

\* looksLikeCertificateCode of src/api/cancel-membership.js, applied to a
\* string: /^[A-Za-z0-9]{8}$/.test(value.trim())
looksLikeCertificateCode_cancelMembership(value) ==
    LET s == trim(value)
    IN  Len(s) = CodeLen /\ \A i \in DOMAIN s : IsAlnumChar(s[i])

\* typeof req.query.x === 'string' ? req.query.x.trim() : ''
RawQuery(q) == IF q.t = "str" THEN trim(q.s) ELSE << >>

\* the query values a caller sends: none, order ids of 2, 7, 8 and 9 digits,
\* the 8 digits padded, a certificate code
ManualQueries ==
    [orderId : { Undef, Str(<< >>), Str(T.order42), Str(<<"1","2","3","4","5","6","7">>),
                 Str(<<"1","2","3","4","5","6","7","8">>),
                 Str(<<" ","1","2","3","4","5","6","7","8">>),
                 Str(<<"1","2","3","4","5","6","7","8","9">>), Str(T.codeLowerPadded) },
     certificateCode : { Undef, Str(T.codeLowerPadded) }]

\* the handler of src/api/process-order.js up to the first wallet request
ProcessOrder(method, q) ==
    LET rawOrderId == RawQuery(q.orderId)
        rawCertificateCode == RawQuery(q.certificateCode)
        certificateCode ==
            IF rawCertificateCode # << >> THEN rawCertificateCode
            ELSE IF looksLikeCertificateCode_processOrder(rawOrderId) THEN rawOrderId
            ELSE << >>
        code == normalizeCertificateCode(Str(certificateCode))
        asks == isCertificateCode(Str(code)) /\ cfg.redis
        query == [e |-> "query", endpoint |-> "process-order", q |-> q]
        r0 == [NewRun("manual", rawOrderId, TRUE) EXCEPT !.trace = << query >>]
        answer(r, http) == [r EXCEPT !.pc = "done", !.http = http]
        enroll(r, orderId) ==
            IF orderId = << >>
            THEN /\ NoFault
                 /\ runs' = Append(runs, answer(r, 400))
            ELSE \E n \in ReceiverAnswers :
                    /\ Fetched(n)
                    /\ runs' = Append(runs,
                          processNewMembershipOrder([r EXCEPT !.orderId = orderId], n))
    IN  /\ IF method # "POST"
           THEN NoFault /\ runs' = Append(runs, answer(r0, 405))
           ELSE IF certificateCode = << >>
           THEN enroll(r0, rawOrderId)
           ELSE \/ /\ asks
                   /\ Fault
                   /\ runs' = Append(runs,
                         answer(Emit(r0, << [e |-> "mapGet", key |-> code, ok |-> FALSE] >>),
                                404))
                \/ LET orderId == resolveOrderIdByCertificateCode(mapping, certificateCode)
                       r1 == IF asks
                             THEN Emit(r0, << [e |-> "mapGet", key |-> code, ok |-> TRUE] >>)
                             ELSE r0
                   IN  IF orderId = Null
                       THEN NoFault /\ runs' = Append(runs, answer(r1, 404))
                       ELSE enroll(r1, orderId.s)
        /\ UNCHANGED << logList, cfg, wallet, nextId, mapping, redisFlag, inMemoryWebhookEnabled >>

\* the handler of src/api/cancel-membership.js up to the first wallet request
CancelMembership(method, q) ==
    LET rawOrderId == RawQuery(q.orderId)
        rawCertificateCode == RawQuery(q.certificateCode)
        query == [e |-> "query", endpoint |-> "cancel-membership", q |-> q]
        r0 == [NewRun("manual", rawOrderId, TRUE) EXCEPT !.trace = << query >>]
        answer(r, http) == [r EXCEPT !.pc = "done", !.http = http]
    IN  /\ IF method # "POST"
           THEN NoFault /\ runs' = Append(runs, answer(r0, 405))
           ELSE IF rawCertificateCode # << >>
                   \/ looksLikeCertificateCode_cancelMembership(rawOrderId)
           THEN LET certificateCode ==
                        toUpperCase(IF rawCertificateCode # << >> THEN rawCertificateCode
                                    ELSE rawOrderId)
                IN  /\ NoFault
                    /\ runs' = Append(runs,
                          cancelMembershipByCertificateCode([r0 EXCEPT !.orderId = << >>],
                                                            certificateCode))
           ELSE IF rawOrderId # << >>
           THEN \E n \in { 0, 2 } :
                    /\ Fetched(n)
                    /\ runs' = Append(runs, processMembershipCancellation(r0, n))
           ELSE NoFault /\ runs' = Append(runs, answer(r0, 400))
        /\ UNCHANGED << logList, cfg, wallet, nextId, mapping, redisFlag, inMemoryWebhookEnabled >>

\* the manual endpoints of the default deployment and the runs they invoke
NextManual ==
    \/ Call(MaxRuns) /\ \E method \in { "POST", "GET" }, q \in ManualQueries :
            ProcessOrder(method, q)
    \/ Call(MaxRuns) /\ \E method \in { "POST", "GET" }, q \in ManualQueries :
            CancelMembership(method, q)
    \/ \E i \in DOMAIN runs : Step(i)

SpecManual == InitReceiver /\ [][NextManual]_vars

(***************************************************************************)
(* The webhook toggle in several instances of the deployment: each has its *)
(* own inMemoryWebhookEnabled, all share the backend.  In this             *)
(* specification inMemoryWebhookEnabled holds one value for each instance. *)
(***************************************************************************)
\* at most MaxFlagCalls calls of getWebhookEnabled and setWebhookEnabled
MaxFlagCalls == 3

\* the running instances
Instances == 1 .. 2

\* getWebhookEnabled() in instance n, the backend answering
getWebhookEnabledOn(n) ==
    LET fallback == getWebhookDefaultEnabled
    IN  IF inMemoryWebhookEnabled[n] \in { "true", "false" }
        THEN inMemoryWebhookEnabled[n] = "true"
        ELSE IF ~cfg.redis THEN fallback
        ELSE IF redisFlag = "unset" THEN fallback
        ELSE redisFlag = "true"

\* a call of getWebhookEnabled() in instance n
GetOn(n) ==
    /\ runs' = Append(runs, [NewRun("direct", << >>, TRUE) EXCEPT
                                !.kind = "getWebhookEnabled", !.pc = "done",
                                !.arg = [instance |-> n],
                                !.result.status = "success",
                                !.out = Bool(getWebhookEnabledOn(n))])
    /\ UNCHANGED << logList, cfg, wallet, nextId, mapping, redisFlag,
                    inMemoryWebhookEnabled, faults >>

\* a call of setWebhookEnabled(enabled) in instance n, the backend answering
SetOn(n, enabled) ==
    LET nextValue == IF enabled THEN "true" ELSE "false"
    IN  /\ redisFlag' = IF cfg.redis THEN nextValue ELSE redisFlag
        /\ inMemoryWebhookEnabled' = [inMemoryWebhookEnabled EXCEPT ![n] = nextValue]
        /\ runs' = Append(runs, [NewRun("direct", << >>, TRUE) EXCEPT
                                    !.kind = "setWebhookEnabled", !.pc = "done",
                                    !.arg = [instance |-> n],
                                    !.result.status = "success",
                                    !.out = Bool(enabled)])
        /\ UNCHANGED << logList, cfg, wallet, nextId, mapping, faults >>

\* fresh instances of a deployment with a backend, which holds no flag yet
\* or the flag an earlier instance stored
InitInstances ==
    /\ cfg = DefaultConfig
    /\ wallet = {}
    /\ mapping = {}
    /\ nextId = 2
    /\ logList = << >>
    /\ redisFlag \in { "unset", "false" }
    /\ inMemoryWebhookEnabled = [n \in Instances |-> "unset"]
    /\ runs = << >>
    /\ faults = 0

NextInstances ==
    \/ Call(MaxFlagCalls) /\ \E n \in Instances : GetOn(n)
    \/ Call(MaxFlagCalls) /\ \E n \in Instances, enabled \in BOOLEAN : SetOn(n, enabled)

SpecInstances == InitInstances /\ [][NextInstances]_vars

(***************************************************************************)
(* The status endpoint: three handlers of GET /api/status are in the       *)
(* repository.  An awaited request to the backend either settles or never  *)
(* does; a timer of withTimeout fires once its 1500 ms have passed.        *)
(***************************************************************************)
\* at most MaxStatus requests to the endpoint
MaxStatus == 2

\* the handlers: src/api/status.js, src/unnamed/part_005, src/unnamed/part_006
StatusHandlers == { "status.js", "part_005", "part_006" }

\* the handlers that wrap getLogs() and getWebhookEnabled() in withTimeout
Raced(h) == h \in { "part_005", "part_006" }

\* whether the helper awaits a request to the backend
Requests(op) ==
    IF op = "logs" THEN cfg.redis ELSE cfg.redis /\ inMemoryWebhookEnabled = "unset"

\* the fallback of withTimeout(getLogs(), 1500, []) and of
\* withTimeout(getWebhookEnabled(), 1500, true)
TimeoutFallback(op) == IF op = "logs" THEN << >> ELSE TRUE

\* the handler up to its first await.  part_005 calls getRedisStatus, which
\* lib/helpers does not export: the TypeError takes it to its catch
StartStatus(h, method) ==
    LET r == [NewRun("status", << >>, TRUE) EXCEPT
                 !.kind = "status",
                 !.arg = [handler |-> h, method |-> method, logs |-> "pending",
                          enabled |-> IF Raced(h) THEN "pending" ELSE "idle"],
                 !.out = [status |-> "running", logs |-> << >>, enabled |-> TRUE]]
    IN  /\ runs' = Append(runs,
              IF method # "GET"
              THEN [r EXCEPT !.pc = "done", !.http = 405]
              ELSE IF h = "part_005"
              THEN [r EXCEPT !.pc = "done", !.http = 200, !.out.status = "degraded"]
              ELSE [r EXCEPT !.pc = "await"])
        /\ UNCHANGED << logList, cfg, wallet, nextId, mapping, redisFlag,
                        inMemoryWebhookEnabled, faults >>

\* getLogs() or getWebhookEnabled() settles: with the stored value, or with
\* its own fallback when the backend fails the request
Settle(i, op) ==
    LET r == runs[i]
        value(ok) == IF op = "logs"
                     THEN IF cfg.redis /\ ok THEN ltrim(logList, MAX_LOG_ENTRIES - 1) ELSE << >>
                     ELSE IF ok THEN getWebhookEnabled ELSE getWebhookDefaultEnabled
        next(ok) == [r EXCEPT !.arg[op] = "value",
                              !.arg.enabled = IF op = "logs" /\ @ = "idle" THEN "pending" ELSE @,
                              !.out[op] = value(ok),
                              !.trace = @ \o << [e |-> "settle", op |-> op, ok |-> ok] >>]
    IN  /\ r.kind = "status"
        /\ r.pc = "await"
        /\ r.arg[op] = "pending"
        /\ \/ /\ NoFault
              /\ runs' = [runs EXCEPT ![i] = next(TRUE)]
           \/ /\ Requests(op)
              /\ Fault
              /\ runs' = [runs EXCEPT ![i] = next(FALSE)]
        /\ UNCHANGED << logList, cfg, wallet, nextId, mapping, redisFlag,
                        inMemoryWebhookEnabled >>

\* the backend never answers the request the helper awaits
Hang(i, op) ==
    LET r == runs[i]
    IN  /\ r.kind = "status"
        /\ r.pc = "await"
        /\ r.arg[op] = "pending"
        /\ Requests(op)
        /\ Fault
        /\ runs' = [runs EXCEPT ![i] =
              [r EXCEPT !.arg[op] = "never",
                        !.trace = @ \o << [e |-> "hang", op |-> op] >>]]
        /\ UNCHANGED << logList, cfg, wallet, nextId, mapping, redisFlag,
                        inMemoryWebhookEnabled >>

\* withTimeout: the timer fires before the helper has settled
Timeout(i, op) ==
    LET r == runs[i]
    IN  /\ r.kind = "status"
        /\ r.pc = "await"
        /\ Raced(r.arg.handler)
        /\ r.arg[op] \in { "pending", "never" }
        /\ runs' = [runs EXCEPT ![i] =
              [r EXCEPT !.arg[op] = "fallback",
                        !.out[op] = TimeoutFallback(op),
                        !.trace = @ \o << [e |-> "timeout", op |-> op] >>]]
        /\ UNCHANGED << logList, cfg, wallet, nextId, mapping, redisFlag,
                        inMemoryWebhookEnabled, faults >>

\* res.status(200).json(...) once both values are there
RespondStatus(i) ==
    LET r == runs[i]
    IN  /\ r.kind = "status"
        /\ r.pc = "await"
        /\ \A op \in { "logs", "enabled" } : r.arg[op] \in { "value", "fallback" }
        /\ runs' = [runs EXCEPT ![i] = [r EXCEPT !.pc = "done", !.http = 200]]
        /\ UNCHANGED << logList, cfg, wallet, nextId, mapping, redisFlag,
                        inMemoryWebhookEnabled, faults >>

\* an instance with or without a backend, the toggle read before or not
InitStatus ==
    /\ cfg \in { DefaultConfig, [DefaultConfig EXCEPT !.redis = FALSE] }
    /\ wallet = {}
    /\ mapping = {}
    /\ nextId = 2
    /\ logList \in { << >>, Recent(2) }
    /\ redisFlag \in { "unset", "false" }
    /\ inMemoryWebhookEnabled \in { "unset", "false" }
    /\ runs = << >>
    /\ faults = 0

\* what the event loop runs once it can: continuations, timers, the response
StepStatus ==
    \E i \in DOMAIN runs :
        \/ \E op \in { "logs", "enabled" } : Settle(i, op)
        \/ \E op \in { "logs", "enabled" } : Timeout(i, op)
        \/ RespondStatus(i)

NextStatus ==
    \/ Call(MaxStatus) /\ \E h \in StatusHandlers, method \in { "GET", "POST" } :
            StartStatus(h, method)
    \/ \E i \in DOMAIN runs, op \in { "logs", "enabled" } : Hang(i, op)
    \/ StepStatus

SpecStatus == InitStatus /\ [][NextStatus]_vars /\ WF_vars(StepStatus)

\* at most MaxStoreOps calls of the mapping store's functions and lapses of time
MaxStoreOps == 3

\* the mapping store before the first call: empty, holding the mapping of
\* order 42 just stored, or holding it one second before it expires
InitStore ==
    /\ cfg \in { DefaultConfig, [DefaultConfig EXCEPT !.redis = FALSE] }
    /\ wallet = {}
    /\ \/ mapping = {}
       \/ \E ex \in { CERT_TO_ORDER_TTL_SECONDS, 1 } :
             mapping = { [key |-> T.codeUpper, value |-> T.order42, ex |-> ex] }
    /\ nextId = 2
    /\ logList = << >>
    /\ redisFlag = "unset"
    /\ inMemoryWebhookEnabled = "unset"
    /\ runs = << >>
    /\ faults = 0

\* the mapping store's functions called one after another for the code in
\* upper and lower case and for a malformed one, while time passes
NextStore ==
    \/ Call(MaxStoreOps) /\ \E orderId \in { T.order42, T.order43 } :
            StartStore(T.codeLowerPadded, orderId)
    \/ Call(MaxStoreOps) /\ StartStore(T.codeShort, T.order42)
    \/ Call(MaxStoreOps) /\ \E certificateCode \in { T.codeUpper, T.codeLowerPadded, T.codeShort } :
            StartResolve(certificateCode)
    \/ Call(MaxStoreOps) /\ \E certificateCode \in { T.codeLowerPadded, T.codeShort } :
            StartRemove(certificateCode)
    \/ Call(MaxStoreOps) /\ \E seconds \in { 1, CERT_TO_ORDER_TTL_SECONDS - 1,
                                              CERT_TO_ORDER_TTL_SECONDS } :
            Expire(seconds)

SpecStore == InitStore /\ [][NextStore]_vars

(***************************************************************************)
(* Properties                                                              *)
(***************************************************************************)
Done(r) == r.pc = "done"

\* positions of a run's trace holding requests of the given kinds
At(r, kinds) == { k \in DOMAIN r.trace : r.trace[k].e \in kinds }

WalletRequests(r) == At(r, { "lookup", "put", "delete" })

WalletWrites(r) == At(r, { "put", "delete" })

StoreRequests(r) == At(r, { "mapSet", "mapDel" })

Puts(r, purpose) == { k \in At(r, { "put" }) : r.trace[k].purpose = purpose }

LastEvent(r) == r.trace[Len(r.trace)]

\* no other invocation has changed the wallet or the mapping store
Alone(i) ==
    \A j \in DOMAIN runs \ { i } :
        \A k \in WalletWrites(runs[j]) \cup StoreRequests(runs[j]) : ~runs[j].trace[k].ok

TinaCevizovic == <<"T","i","n","a"," ","C","e","v","i","z","o","v","i","c">>

\* the entry the mapping store holds for a code
Resolve(code) == { e.value : e \in { x \in mapping : x.key = code } }

\* C1: any number of Enroll runs for the same active order, with every request
\* accepted, run one after another or interleaved, end with exactly one wallet
\* member for the code, every run reporting success, and the mapping
\* code -> order id
C1_EnrollIdempotent ==
    ( /\ runs # << >>
      /\ \A i \in DOMAIN runs :
            /\ runs[i].kind = "enroll" /\ runs[i].order = 1
            /\ runs[i].orderId = T.order42 /\ Done(runs[i]) )
    => /\ Cardinality(MembersOf(T.codeUpper)) = 1
       /\ Cardinality(wallet) = Cardinality({ m.id : m \in wallet })
       /\ \A i \in DOMAIN runs :
            /\ runs[i].result.status = "success"
            /\ \A m \in MembersOf(T.codeUpper) : runs[i].result.passKitId = m.id
       /\ Resolve(T.codeUpper) = { T.order42 }

\* two Enroll runs of the active order have both returned
C1_Witness ==
    /\ Len(runs) >= 2
    /\ \A i \in DOMAIN runs :
          runs[i].kind = "enroll" /\ runs[i].order = 1 /\ runs[i].result.status = "success"

\* two calls of cancelMembershipByCertificateCode for the code, the second
\* started after the first returned; the first found a wallet member and
\* returned success
CancelledTwice(i) ==
    /\ i + 1 \in DOMAIN runs
    /\ runs[i].kind = "cancelCode" /\ runs[i + 1].kind = "cancelCode"
    /\ Done(runs[i]) /\ Done(runs[i + 1])
    /\ runs[i].member # 0
    /\ runs[i].result.status = "success"

\* C2 as claimed: the second of two Cancel calls in sequence on a code for which
\* a wallet member existed returns member_not_found and writes nothing to the
\* wallet, and neither call raises (stated for runs in which no request failed)
C2_SecondCancelNotFound ==
    \A i \in DOMAIN runs :
        (CancelledTwice(i) /\ faults = 0) =>
            /\ runs[i].result.status = "success"
            /\ runs[i + 1].result.status = "success"
            /\ runs[i + 1].result.method = "member_not_found"
            /\ WalletWrites(runs[i + 1]) = {}

\* C2 amended: of two Cancel calls in sequence on a code for which a wallet
\* member existed, the first returning success, the second returns success
\* unless its own delete request is rejected; it returns member_not_found,
\* without a wallet write,
\* exactly when the Resolver finds no member, which is certain once the first
\* call deleted the member; after a status update the member is still there,
\* and a second call that finds it issues the status update again, which
\* leaves the member cancelled until a later call
C2_CancelRepeatable ==
    \A i \in DOMAIN runs :
        CancelledTwice(i) =>
            LET first == runs[i]
                second == runs[i + 1]
            IN  /\ \/ second.result.status = "success"
                   \/ /\ second.result.error = "delete_rejected"
                      /\ \E k \in At(second, { "delete" }) : ~second.trace[k].ok
                /\ second.member = 0 <=>
                     /\ second.result.method = "member_not_found"
                     /\ second.result.passKitId = 0
                /\ second.member = 0 => WalletWrites(second) = {}
                /\ first.result.method = "delete" => second.member = 0
                /\ second.member # 0 =>
                     /\ first.result.method = "status_update"
                     /\ Puts(second, "cancel") # {}
                     /\ second.result.method \in { "status_update", "delete", "" }
                /\ (second.result.method = "status_update" /\ i + 1 = Len(runs)) =>
                     \A m \in MembersOf(second.code) : m.status = "CANCELLED"

\* the first call fell back to the delete, the second found no member
C2_Witness ==
    \E i \in DOMAIN runs :
        /\ CancelledTwice(i)
        /\ runs[i].result.method = "delete"
        /\ runs[i + 1].result.method = "member_not_found"

\* C3 as claimed: while the webhook-enabled flag is false, a delivery with a
\* recognized action invokes neither Enroll nor Cancel and causes no wallet
\* write and no mapping change
C3_DisabledWebhookIgnored ==
    \A i \in DOMAIN runs :
        (runs[i].via = "webhook" /\ ~runs[i].enabled) =>
            /\ runs[i].kind = "none"
            /\ WalletWrites(runs[i]) = {}
            /\ StoreRequests(runs[i]) = {}

\* the outcome a finished cancellation reports: its own status, or the one
\* wrapped in the skipped result of an enrollment
Outcome(r) == IF r.wrap THEN r.result.inner ELSE r.result.status

\* an Enroll run that fetched the order reported cancelled, no filter configured
EnrollsInactive(r) == r.kind = "enroll" /\ r.order = 2 /\ cfg.filter = << >>

EnrollsActive(r) == r.kind = "enroll" /\ r.order = 1 /\ cfg.filter = << >>

\* C5: an Enroll run that fetches an active order with a valid code, no filter
\* configured, issues exactly one wallet upsert, with the upper-cased code as
\* externalId, tierId "membership", the trimmed 'firstName lastName' as
\* displayName and the order id and the code as metadata, and no other wallet
\* request; when the upsert succeeds it stores the mapping code -> order id and
\* returns success with the wallet member id and the display name
C5_ActiveOrderUpserted ==
    \A i \in DOMAIN runs :
        EnrollsActive(runs[i]) =>
            LET r == runs[i]
                puts == Puts(r, "enroll")
            IN  /\ WalletRequests(r) = puts
                /\ At(r, { "mapDel" }) = {}
                /\ Cardinality(puts) = IF r.pc = "upsert" THEN 0 ELSE 1
                /\ \A k \in puts :
                     LET body == r.trace[k].body
                     IN  /\ body.externalId = T.codeUpper
                         /\ body.tierId = "membership"
                         /\ body.displayName = TinaCevizovic
                         /\ body.acuityOrderId = T.order42
                         /\ body.certificateCode = T.codeUpper
                         /\ body.membershipType = T.membershipTitle
                /\ \A k \in puts :
                     /\ r.trace[k].ok =>
                          /\ Alone(i) => \E m \in wallet : m.id = r.trace[k].id
                          /\ Done(r) =>
                               /\ r.result.status = "success"
                               /\ r.result.passKitId = r.trace[k].id
                               /\ r.result.member = TinaCevizovic
                               /\ cfg.redis =>
                                    \E j \in At(r, { "mapSet" }) :
                                       /\ j > k
                                       /\ r.trace[j].key = T.codeUpper
                                       /\ r.trace[j].value = T.order42
                               /\ (Alone(i) /\ \E j \in At(r, { "mapSet" }) : r.trace[j].ok)
                                     => Resolve(T.codeUpper) = { T.order42 }
                     /\ ~r.trace[k].ok =>
                          /\ Done(r) /\ r.result.error = "upsert_rejected"
                          /\ At(r, { "mapSet" }) = {}

\* the active order was enrolled as a new member and its mapping stored
C5_Witness ==
    \E i \in DOMAIN runs :
        /\ EnrollsActive(runs[i]) /\ Done(runs[i])
        /\ runs[i].result.status = "success"
        /\ runs[i].result.passKitId = 2
        /\ \E m \in wallet : m.id = 2 /\ m.externalId = T.codeUpper /\ m.status = "ACTIVE"
        /\ Resolve(T.codeUpper) = { T.order42 }

\* C6: with the filter "gold,platinum" an Enroll run that fetches an order
\* whose title contains neither substring in any letter case (orders 1 to 4
\* and 6, whatever their status and code) returns skipped 'filter mismatch'
\* with no wallet request and no mapping store request, and a run that fetches
\* the order titled "Platinum Annual Membership" goes on to the upsert
C6_FilterMismatchSkipped ==
    \A i \in DOMAIN runs :
        (runs[i].kind = "enroll" /\ runs[i].order # 0 /\ cfg.filter = T.goldPlatinum) =>
            LET r == runs[i]
            IN  IF r.order \in { 1, 2, 3, 4, 6 }
                THEN /\ Done(r)
                     /\ r.result.status = "skipped"
                     /\ r.result.reason.kind = "filter_mismatch"
                     /\ WalletRequests(r) = {}
                     /\ StoreRequests(r) = {}
                     /\ LastEvent(r) = Log("info", "Order doesn't match filter")
                ELSE /\ r.result.reason.kind # "filter_mismatch"
                     /\ r.code = T.codeUpper
                     /\ r.pc = "upsert" \/ Puts(r, "enroll") # {}

\* a cancelled order for another product was skipped, and the platinum order
\* is possible too
C6_Witness ==
    \E i \in DOMAIN runs :
        /\ runs[i].kind = "enroll" /\ cfg.filter = T.goldPlatinum
        /\ runs[i].order = 2
        /\ runs[i].result.reason.kind = "filter_mismatch"
        /\ wallet # {}

\* the platinum order was enrolled under the filter
C6_WitnessProcessed ==
    \E i \in DOMAIN runs :
        /\ runs[i].kind = "enroll" /\ cfg.filter = T.goldPlatinum
        /\ runs[i].order = 5 /\ runs[i].result.status = "success"

\* C7: an Enroll run whose order passes the filter (none configured) and holds
\* no valid 8-character alphanumeric code logs the condition as an error and
\* raises 'missing or invalid certificate code', with no wallet request and no
\* mapping store request
C7_MissingCodeRaises ==
    \A i \in DOMAIN runs :
        (runs[i].kind = "enroll" /\ runs[i].order \in { 3, 6 } /\ cfg.filter = << >>) =>
            LET r == runs[i]
            IN  /\ Done(r)
                /\ r.result.status = "error"
                /\ r.result.error = "missing_code"
                /\ LastEvent(r) = Log("error", "Order is missing a valid certificate code")
                /\ WalletRequests(r) = {}
                /\ StoreRequests(r) = {}
                /\ r.code = << >>

\* the order with a 7-character code and a dashed one was refused
C7_Witness ==
    \E i \in DOMAIN runs :
        /\ runs[i].kind = "enroll" /\ runs[i].order = 3 /\ cfg.filter = << >>
        /\ runs[i].result.error = "missing_code"

\* a Cancel(orderId) run that fetched an order without a valid code
CancelsWithoutCode(r) == r.kind = "cancelOrder" /\ r.order \in { 3, 6 }

\* C8 as claimed: a Cancel(orderId) run whose fetched order carries no valid
\* certificate code ends with a raised error
C8_CancelWithoutCodeRaises ==
    \A i \in DOMAIN runs :
        (CancelsWithoutCode(runs[i]) /\ Done(runs[i])) => runs[i].result.status = "error"

\* C8 amended: a Cancel(orderId) run whose fetched order carries no valid
\* certificate code logs a warning and returns a skipped result with the reason
\* 'No certificate code on order', without raising, with no wallet request and
\* no mapping store request; only the fetch failure raises
C8_CancelWithoutCodeSkipped ==
    \A i \in DOMAIN runs :
        /\ CancelsWithoutCode(runs[i]) =>
            LET r == runs[i]
            IN  /\ Done(r)
                /\ r.result.status = "skipped"
                /\ r.result.reason.kind = "no_certificate_code"
                /\ r.result.error = ""
                /\ LastEvent(r) = Log("warn", "No certificate code found for cancellation order")
                /\ WalletRequests(r) = {}
                /\ StoreRequests(r) = {}
        /\ (runs[i].kind = "cancelOrder" /\ runs[i].order = 0) =>
                runs[i].result.error = "fetch_failed"

\* a cancellation event for the order without a code was skipped while the
\* member of the code is in the wallet
C8_Witness ==
    \E i \in DOMAIN runs :
        /\ CancelsWithoutCode(runs[i]) /\ runs[i].order = 3
        /\ runs[i].result.status = "skipped"
        /\ wallet # {}

\* C9: cancelMembershipByCertificateCode raises for a value that, trimmed, is
\* not 8 alphanumeric characters ("AB12CD3", "AB12-D34") before any wallet
\* request, log entry or mapping removal; for a valid code in lower case with a
\* trailing blank every wallet request and the mapping key use the upper-cased
\* trimmed code
C9_CancelValidatesFirst ==
    \A i \in DOMAIN runs :
        runs[i].kind = "cancelCode" =>
            LET r == runs[i]
            IN  IF r.arg \in { T.codeShort, T.codeDash }
                THEN /\ Done(r)
                     /\ r.result.status = "error"
                     /\ r.result.error = "invalid_code"
                     /\ r.trace = << >>
                ELSE /\ r.arg = T.codeLowerPadded
                     /\ r.result.error # "invalid_code"
                     /\ r.code = T.codeUpper
                     /\ \A k \in At(r, { "lookup" }) : r.trace[k].externalId = T.codeUpper
                     /\ \A k \in At(r, { "put" }) : r.trace[k].body.externalId = T.codeUpper
                     /\ \A k \in At(r, { "mapDel" }) : r.trace[k].key = T.codeUpper
                     /\ \A k \in At(r, { "delete" }) :
                           \E j \in At(r, { "lookup" }) :
                              j < k /\ r.trace[j].out = "found" /\ r.member = r.trace[k].id
                     /\ (cfg.programId /\ r.pc # "lookup1") => WalletRequests(r) # {}

\* a lower-case code was cancelled: the member of the upper-cased code was
\* found and its mapping removed
C9_Witness ==
    \E i \in DOMAIN runs :
        /\ runs[i].kind = "cancelCode" /\ runs[i].arg = T.codeLowerPadded
        /\ Done(runs[i]) /\ runs[i].result.status = "success"
        /\ runs[i].member # 0
        /\ \E k \in At(runs[i], { "mapDel" }) : runs[i].trace[k].key = T.codeUpper

\* a malformed value was refused
C9_WitnessInvalid ==
    \E i \in DOMAIN runs :
        runs[i].kind = "cancelCode" /\ runs[i].result.error = "invalid_code"

\* C10: in a cancellation whose lookup found a member, an accepted status
\* update is followed by no delete and gives success with method
\* "status_update"; a rejected status update is followed by a warning in the
\* log and by exactly one delete, of the found member's id, which when
\* accepted gives success with method "delete"; the cancellation raises only
\* when that delete is rejected
C10_StatusUpdateThenDeleteFallback ==
    \A i \in DOMAIN runs :
        runs[i].member # 0 =>
            LET r == runs[i]
                updates == Puts(r, "cancel")
                deletes == At(r, { "delete" })
            IN  /\ Cardinality(updates) <= 1 /\ Cardinality(deletes) <= 1
                /\ r.pc \notin { "statusUpdate" } <=> updates # {}
                /\ \A k \in updates :
                     /\ r.trace[k].body.id = r.member
                     /\ r.trace[k].body.status = "CANCELLED"
                     /\ r.trace[k].ok =>
                          /\ deletes = {}
                          /\ r.method = "status_update"
                          /\ Done(r) =>
                               /\ Outcome(r) = "success"
                               /\ r.result.method = "status_update"
                               /\ r.result.passKitId = r.member
                     /\ ~r.trace[k].ok =>
                          /\ k + 1 \in DOMAIN r.trace
                          /\ r.trace[k + 1].e = "log" /\ r.trace[k + 1].level = "warn"
                          /\ r.pc # "delete" <=> deletes # {}
                          /\ \A d \in deletes :
                               /\ d > k + 1
                               /\ r.trace[d].id = r.member
                               /\ r.trace[d].ok =>
                                    /\ r.method = "delete"
                                    /\ Done(r) =>
                                         /\ Outcome(r) = "success"
                                         /\ r.result.method = "delete"
                                         /\ r.result.passKitId = r.member
                               /\ ~r.trace[d].ok =>
                                    Done(r) /\ r.result.error = "delete_rejected"
                /\ (Done(r) /\ r.result.status = "error") =>
                     \E d \in deletes : ~r.trace[d].ok

\* the status update was rejected and the member deleted
C10_Witness ==
    \E i \in DOMAIN runs :
        /\ runs[i].member # 0 /\ Done(runs[i])
        /\ Outcome(runs[i]) = "success"
        /\ runs[i].result.method = "delete"
        /\ \E k \in Puts(runs[i], "cancel") : ~runs[i].trace[k].ok
        /\ wallet = {}

\* a finished run of cancelMembershipByCertificateCode that reported success,
\* called directly, by processMembershipCancellation or for an inactive order
CancelSucceeded(r) ==
    /\ Done(r)
    /\ r.kind = "cancelCode" \/ r.kind = "cancelOrder" \/ r.wrap
    /\ r.code # << >>
    /\ Outcome(r) = "success"

\* C11 as claimed: whenever cancelMembershipByCertificateCode returned success,
\* with no other run in progress a following resolve of the code yields null
C11_SuccessMeansUnmapped ==
    \A i \in DOMAIN runs :
        (CancelSucceeded(runs[i]) /\ Alone(i)) =>
            resolveOrderIdByCertificateCode(mapping, runs[i].code) = Null

\* C11 amended: whenever cancelMembershipByCertificateCode returned success,
\* whatever the method, it has asked the store once, after its wallet requests,
\* to remove the mapping of the upper-cased code; when the store accepted the
\* removal (or no store is configured), with no other run in progress a
\* following resolve yields null; a removal that fails is ignored
C11_SuccessAfterRemovalRequest ==
    \A i \in DOMAIN runs :
        CancelSucceeded(runs[i]) =>
            LET r == runs[i]
                dels == At(r, { "mapDel" })
            IN  /\ r.result.method \in { "status_update", "delete", "member_not_found" }
                /\ Cardinality(dels) = IF cfg.redis THEN 1 ELSE 0
                /\ \A k \in dels :
                     /\ r.trace[k].key = r.code
                     /\ \A w \in WalletRequests(r) : w < k
                /\ (Alone(i) /\ \A k \in dels : r.trace[k].ok) =>
                     resolveOrderIdByCertificateCode(mapping, r.code) = Null

\* no member was found for a code that had a mapping, and the mapping is gone
C11_Witness ==
    \E i \in DOMAIN runs :
        /\ CancelSucceeded(runs[i])
        /\ runs[i].result.method = "member_not_found"
        /\ wallet # {} /\ cfg.redis
        /\ \E k \in At(runs[i], { "mapDel" }) : runs[i].trace[k].ok
        /\ resolveOrderIdByCertificateCode(mapping, runs[i].code) = Null

\* the Resolver made its three attempts for the run and none gave a member
ResolverMissed(r) ==
    /\ Cardinality(At(r, { "lookup" })) = 3
    /\ \A k \in At(r, { "lookup" }) : r.trace[k].out # "found"

\* C12: when the Resolver returns no member for the code, the cancellation
\* issues no wallet write (no status update, no delete) and returns success
\* with method "member_not_found" and a null wallet member id, without raising
C12_LookupMissIsSuccess ==
    \A i \in DOMAIN runs :
        ResolverMissed(runs[i]) =>
            LET r == runs[i]
            IN  /\ WalletWrites(r) = {}
                /\ r.member = 0
                /\ r.pc \in { "removeMap", "done" }
                /\ Done(r) =>
                     /\ Outcome(r) = "success"
                     /\ r.result.error = ""
                     /\ r.result.method = "member_not_found"
                     /\ r.result.passKitId = 0
                     /\ r.result.externalId = r.code

\* a code without a member was cancelled: success, nothing written
C12_Witness ==
    \E i \in DOMAIN runs :
        /\ ResolverMissed(runs[i]) /\ Done(runs[i])
        /\ runs[i].kind = "cancelCode"
        /\ runs[i].result.status = "success"
        /\ runs[i].result.method = "member_not_found"
        /\ wallet = {}

\* the position in the run's trace of its n-th attempt to find the member
Attempt(r, n) == { k \in At(r, { "lookup" }) : r.trace[k].n = n }

\* C13: the Resolver makes its attempts in the order direct lookup (1), search
\* on memberId (2), search on externalId (3), each at most once; an attempt
\* that throws or gives no reference is followed by the next; the first
\* reference found ends the search; the Resolver returns null only after three
\* attempts without a reference; no attempt's exception reaches the caller
C13_ResolverAttemptsInOrder ==
    \A i \in DOMAIN runs :
        LET r == runs[i]
            lookups == At(r, { "lookup" })
        IN  /\ \A k \in lookups : r.trace[k].n \in 1..3
            /\ \A n \in 1..3 : Cardinality(Attempt(r, n)) <= 1
            /\ \A j, k \in lookups : j < k => r.trace[j].n < r.trace[k].n
            /\ \A n \in 2..3 : Attempt(r, n) # {} => Attempt(r, n - 1) # {}
            /\ \A k \in lookups :
                 IF r.trace[k].out = "found"
                 THEN /\ r.member # 0
                      /\ \A j \in lookups : j <= k
                 ELSE /\ r.trace[k].out \in { "none", "throw" }
                      /\ r.trace[k].n < 3 =>
                           \/ LookupNo(r.pc) = r.trace[k].n + 1
                           \/ Attempt(r, r.trace[k].n + 1) # {}
            /\ (r.member = 0 /\ lookups # {} /\ LookupNo(r.pc) = 0) => ResolverMissed(r)
            /\ (lookups # {} /\ Done(r) /\ r.result.status = "error") =>
                 /\ r.member # 0
                 /\ r.result.error = "delete_rejected"

\* the direct lookup threw, the search on memberId gave nothing, the search on
\* externalId found the member, and the cancellation succeeded
C13_Witness ==
    \E i \in DOMAIN runs :
        LET r == runs[i]
        IN  /\ Done(r) /\ Outcome(r) = "success" /\ r.member # 0
            /\ \E a \in Attempt(r, 1) : r.trace[a].out = "throw"
            /\ \E b \in Attempt(r, 2) : r.trace[b].out = "none"
            /\ \E c \in Attempt(r, 3) : r.trace[c].out = "found"

\* a cancellation of a valid code: called directly, for a fetched order that
\* carries the code, or for an inactive order being enrolled
CancelsValidCode(r) ==
    \/ r.kind = "cancelCode" /\ r.arg = T.codeLowerPadded
    \/ r.kind = "cancelOrder" /\ r.order \in { 2, 5 }
    \/ r.kind = "enroll" /\ r.order = 2 /\ cfg.filter = << >>

\* C14: with no program id configured a cancellation of a valid code raises
\* the configuration error to its caller, not member_not_found or success,
\* before any wallet request; it writes nothing to the wallet and removes no
\* mapping
C14_CancelNeedsProgramId ==
    \A i \in DOMAIN runs :
        (~cfg.programId /\ CancelsValidCode(runs[i])) =>
            LET r == runs[i]
            IN  /\ Done(r)
                /\ r.result.status = "error"
                /\ r.result.error = "missing_program_id"
                /\ r.result.method = "" /\ r.result.inner = ""
                /\ WalletRequests(r) = {}
                /\ StoreRequests(r) = {}

\* the code of an enrolled member was cancelled with no program id configured
C14_Witness ==
    \E i \in DOMAIN runs :
        /\ ~cfg.programId
        /\ runs[i].kind = "cancelCode" /\ runs[i].arg = T.codeLowerPadded
        /\ runs[i].result.error = "missing_program_id"
        /\ \E m \in wallet : m.status = "ACTIVE"
        /\ mapping # {}

\* C15 as claimed: an Enroll run for an active order started with no program
\* id configured raises the configuration error without issuing a wallet upsert
C15_EnrollNeedsProgramId ==
    \A i \in DOMAIN runs :
        (~cfg.programId /\ runs[i].kind = "enroll" /\ runs[i].order \in { 1, 4, 5 }) =>
            LET r == runs[i]
            IN  /\ Puts(r, "enroll") = {}
                /\ Done(r) => r.result.error = "missing_program_id"

\* C16: a run asks the store to set a mapping only in an enrollment, after its
\* wallet upsert was accepted, for the upserted code and the run's order id;
\* when the upsert is rejected the run logs the error, raises and asks the
\* store for nothing; the filter-skip, missing-code and inactive-order paths
\* never set a mapping
C16_MappingOnlyAfterUpsert ==
    \A i \in DOMAIN runs :
        LET r == runs[i]
            sets == At(r, { "mapSet" })
        IN  /\ Cardinality(sets) <= 1
            /\ \A k \in sets :
                 /\ r.kind = "enroll" /\ ~r.wrap
                 /\ r.order \in { 1, 4, 5 }
                 /\ r.trace[k].value = r.orderId
                 /\ \E j \in Puts(r, "enroll") :
                      /\ j < k
                      /\ r.trace[j].ok
                      /\ r.trace[j].body.externalId = r.trace[k].key
                 /\ \A j \in Puts(r, "enroll") : r.trace[j].ok
            /\ \A j \in Puts(r, "enroll") :
                 ~r.trace[j].ok =>
                    /\ Done(r)
                    /\ r.result.status = "error"
                    /\ r.result.error = "upsert_rejected"
                    /\ j + 1 = Len(r.trace)
                    /\ LastEvent(r) = Log("error", "Failed to create PassKit member")
                    /\ StoreRequests(r) = {}
            /\ ( \/ r.result.reason.kind = "filter_mismatch"
                 \/ r.result.error = "missing_code"
                 \/ r.wrap
                 \/ r.kind # "enroll" ) => sets = {}

\* the provider rejected the upsert of a new member: the run raised and the
\* store holds no mapping
C16_Witness ==
    \E i \in DOMAIN runs :
        /\ runs[i].kind = "enroll" /\ runs[i].order = 1
        /\ runs[i].result.error = "upsert_rejected"
        /\ cfg.redis /\ mapping = {} /\ wallet = {}

\* an accepted upsert was followed by the store of the mapping
C16_WitnessStored ==
    \E i \in DOMAIN runs :
        /\ runs[i].kind = "enroll" /\ Done(runs[i])
        /\ \E k \in At(runs[i], { "mapSet" }) : runs[i].trace[k].ok
        /\ mapping # {}

\* requests to the mapping store's backend
BackendRequests(r) == At(r, { "mapSet", "mapDel", "mapGet" })

\* the provider accepted what the run asked of it: the member was upserted,
\* or the membership was set inactive or deleted
ProviderAccepted(r) ==
    \E k \in WalletWrites(r) : r.trace[k].ok

\* C17: the mapping store never raises to its caller.  Without a backend no
\* request is made and the store is left as it is; a failed request leaves the
\* store as it is; store and remove of a malformed code leave it as it is;
\* resolve ends normally, and returns null without a backend, after a failed
\* request and for a malformed code.  An Enroll or Cancel run whose provider
\* request was accepted ends in success whatever the mapping store did.
C17_MappingStoreNeverRaises ==
    [][ /\ ~cfg.redis => mapping' = mapping
        /\ storeCertificateOrderMapping(mapping', T.codeShort, T.order42) = mapping'
        /\ removeCertificateOrderMapping(mapping', T.codeShort) = mapping'
        /\ \A i \in DOMAIN runs' :
              LET r == runs'[i]
                  before == IF i \in DOMAIN runs THEN Len(runs[i].trace) ELSE 0
                  code == normalizeCertificateCode(Str(r.arg))
              IN  /\ ~cfg.redis => BackendRequests(r) = {}
                  /\ \A k \in BackendRequests(r) :
                        k > before /\ ~r.trace[k].ok => mapping' = mapping
                  /\ r.kind = "resolve" =>
                        /\ Done(r) /\ r.result.status = "success"
                        /\ ~isCertificateCode(Str(code)) => BackendRequests(r) = {}
                        /\ \/ ~cfg.redis
                           \/ ~isCertificateCode(Str(code))
                           \/ \E k \in BackendRequests(r) : ~r.trace[k].ok
                           => r.out = Null
                  /\ r.kind \in { "enroll", "cancelOrder", "cancelCode" } /\ Done(r) /\ ProviderAccepted(r) =>
                        Outcome(r) = "success"
      ]_vars

\* an enrolment and a cancellation that ended although the mapping store's
\* backend failed them, or with no backend at all
C17_Witness ==
    \E i \in DOMAIN runs :
        LET r == runs[i]
        IN  /\ r.kind = "enroll"
            /\ Done(r)
            /\ \E k \in At(r, { "mapSet" }) : ~r.trace[k].ok

C17_WitnessCancel ==
    \E i \in DOMAIN runs :
        LET r == runs[i]
        IN  /\ Done(r)
            /\ \E k \in At(r, { "mapDel" }) : ~r.trace[k].ok

C17_WitnessResolve ==
    \E i \in DOMAIN runs :
        LET r == runs[i]
        IN  /\ r.kind = "resolve"
            /\ \E k \in At(r, { "mapGet" }) : ~r.trace[k].ok

\* the seconds that passed between call j and call i
RECURSIVE SecondsBetween(_, _)
SecondsBetween(j, i) ==
    IF j >= i THEN 0
    ELSE (IF runs[j].kind = "tick" THEN runs[j].trace[1].d ELSE 0) + SecondsBetween(j + 1, i)

\* the calls before call i whose store or remove of the key the backend accepted
AcceptedWrites(i, key) ==
    { j \in 1 .. (i - 1) :
        /\ runs[j].kind \in { "store", "remove" }
        /\ runs[j].trace # << >>
        /\ runs[j].trace[1].ok
        /\ runs[j].trace[1].key = key }

\* call i is a resolve the backend answered
Resolved(i) ==
    /\ runs[i].kind = "resolve"
    /\ runs[i].trace # << >>
    /\ runs[i].trace[1].ok

\* C18: with the backend answering, a resolve of a code in any letter case
\* returns the order id of the last accepted store for that code, as a string,
\* while fewer than 90 days have passed since that store and no remove of the
\* code was accepted after it; it returns null once 90 days have passed since
\* the last store, or when the last accepted write for the code was a remove.
C18_MappingLivesNinetyDays ==
    /\ CERT_TO_ORDER_TTL_SECONDS = 90 * 24 * 60 * 60
    /\ \A i \in DOMAIN runs :
          LET key == runs[i].trace[1].key
              writes == AcceptedWrites(i, key)
              last == CHOOSE j \in writes : \A w \in writes : w <= j
          IN  Resolved(i) /\ writes # {} =>
                  IF runs[last].kind = "store"
                        /\ SecondsBetween(last, i) < CERT_TO_ORDER_TTL_SECONDS
                  THEN runs[i].out = Str(runs[last].orderId)
                  ELSE runs[i].out = Null

\* a mapping one second from expiry is stored again for another order in
\* lower case; a second later the upper-case code resolves to the new order
C18_Witness ==
    \E i \in DOMAIN runs :
        /\ Resolved(i)
        /\ runs[i].arg = T.codeUpper
        /\ runs[i].out = Str(T.order43)
        /\ i = 3
        /\ runs[1].kind = "store" /\ runs[1].arg = T.codeLowerPadded
        /\ runs[2].kind = "tick" /\ runs[2].trace[1].d = 1

\* 90 days after an accepted store the code resolves to null
C18_WitnessExpired ==
    \E i \in DOMAIN runs :
        /\ Resolved(i)
        /\ runs[i].out = Null
        /\ AcceptedWrites(i, T.codeUpper) # {}
        /\ \A j \in AcceptedWrites(i, T.codeUpper) :
              runs[j].kind = "store" /\ SecondsBetween(j, i) >= CERT_TO_ORDER_TTL_SECONDS

\* after an accepted remove the code resolves to null
C18_WitnessRemoved ==
    \E i \in DOMAIN runs :
        /\ Resolved(i)
        /\ runs[i].out = Null
        /\ \E j \in AcceptedWrites(i, T.codeUpper) : runs[j].kind = "store"
        /\ \E j \in AcceptedWrites(i, T.codeUpper) : runs[j].kind = "remove"
        /\ SecondsBetween(1, i) = 0

\* the objects a field of object o holds
Children(p, o) ==
    { p.heap[o][n].v.id : n \in { f \in DOMAIN p.heap[o] : p.heap[o][f].v.t = "ref" } }

RECURSIVE Below(_, _, _)
Below(p, objects, n) ==
    IF n = 0 THEN objects
    ELSE Below(p, objects \cup UNION { Children(p, o) : o \in objects }, n - 1)

\* the objects reached from object o through one field or more
Descendants(p, o) == Below(p, Children(p, o), Len(p.heap))

\* the value holds an object that is reached from itself: no JSON text
\* parses to such a value
Cyclic(p) ==
    /\ p.root.t = "ref"
    /\ \E o \in { p.root.id } \cup Descendants(p, p.root.id) : o \in Descendants(p, o)

IsCode(v) ==
    /\ v.t = "str"
    /\ Len(v.s) = CodeLen
    /\ \A n \in DOMAIN v.s : IsAlnumChar(v.s[n])

\* C19: for every value JSON can express (nothing, a primitive, an object
\* with missing or nested fields) extractCertificateCode returns null or a
\* string of exactly 8 alphanumeric characters, null for every value that is
\* not an object; whatever the value, what it returns is one of these two.
C19_ExtractNullOrCode ==
    \A i \in DOMAIN runs :
        LET r == runs[i]
        IN  r.kind = "extract" /\ Done(r) =>
                /\ r.out = Null \/ IsCode(r.out) \/ r.out.t = "diverged"
                /\ ~Cyclic(r.arg) => r.out.t # "diverged"
                /\ r.arg.root.t # "ref" => r.out = Null

\* the code is found, padded and in lower case, under a key of a nested
\* object that only the fallback loop accepts, and returned trimmed
C19_Witness ==
    \E i \in DOMAIN runs :
        LET r == runs[i]
        IN  /\ r.kind = "extract" /\ Done(r)
            /\ r.arg.root = Ref(1)
            /\ r.arg.heap[1] = << E(K.details, Ref(2)) >>
            /\ r.arg.heap[2] = << E(K.certificate, Null),
                                  E(K.voucherGift, Str(T.codeLowerPadded)) >>
            /\ IsCode(r.out)

\* a direct candidate that is padded
C19_WitnessDirect ==
    \E i \in DOMAIN runs :
        LET r == runs[i]
        IN  /\ r.kind = "extract" /\ Done(r)
            /\ r.arg.root = Ref(1)
            /\ r.arg.heap[1] = << E(K.certificate, Ref(2)) >>
            /\ r.arg.heap[2] = << E(K.code, Str(T.codeLowerPadded)) >>
            /\ IsCode(r.out)

\* null for a string that is itself a code
C19_WitnessPrimitive ==
    \E i \in DOMAIN runs :
        LET r == runs[i]
        IN  /\ r.kind = "extract" /\ Done(r)
            /\ r.arg.root = Str(T.codeUpper)
            /\ r.out = Null

Field(r, key) == Get(r.arg, r.arg.root, key)

Classified(r) == r.kind = "classify" /\ Done(r)

\* a status value the classifier takes as terminal: "Cancelled" and
\* "Expires soon " are, "active", " " and 5 are not
TerminalStatus(v) == v \in { Str(T.Cancelled), Str(T.expiresSoon) }

Inactive(kind, detail) == [active |-> FALSE, kind |-> kind, detail |-> detail]

\* C21: the classifier's rules apply in order and the first match wins: the
\* first truthy cancellation flag, named in the reason; then active or
\* isActive being false; then the first status field with a terminal value,
\* its literal value in the reason; otherwise active.  {status: "Cancelled"}
\* is inactive with "Cancelled" in the reason, {} and no order are active.
C21_FirstRuleWins ==
    \A i \in DOMAIN runs :
        LET r == runs[i]
            cancelled == isTruthyFlag(Field(r, K.cancelled))
            isCanceled == isTruthyFlag(Field(r, K.isCanceled))
            marked == Field(r, K.active) = Bool(FALSE)
            status == Field(r, K.status)
            membershipStatus == Field(r, K.membershipStatus)
        IN  Classified(r) =>
              /\ r.out = evaluateOrderActivity(r.arg)
              /\ r.out =
                    IF cancelled THEN Inactive("flag", K.cancelled)
                    ELSE IF isCanceled THEN Inactive("flag", K.isCanceled)
                    ELSE IF marked THEN Inactive("marked", << >>)
                    ELSE IF TerminalStatus(status) THEN Inactive("status", status.s)
                    ELSE IF TerminalStatus(membershipStatus)
                    THEN Inactive("status", membershipStatus.s)
                    ELSE [active |-> TRUE, kind |-> "none", detail |-> << >>]
              /\ r.arg = OrderWith(<< E(K.status, Str(T.Cancelled)) >>) =>
                    r.out = Inactive("status", T.Cancelled)
              /\ r.arg = OrderWith(<< >>) => r.out.active
              /\ r.arg.root.t # "ref" => r.out.active

\* an order that matches all three rules is classified by its flag
C21_Witness ==
    \E i \in DOMAIN runs :
        LET r == runs[i]
        IN  /\ Classified(r)
            /\ Field(r, K.isCanceled) = Bool(TRUE)
            /\ Field(r, K.cancelled) = Bool(FALSE)
            /\ Field(r, K.active) = Bool(FALSE)
            /\ Field(r, K.status) = Str(T.Cancelled)
            /\ r.out = Inactive("flag", K.isCanceled)

\* {status: "Cancelled"} classified
C21_WitnessStatus ==
    \E i \in DOMAIN runs :
        /\ Classified(runs[i])
        /\ runs[i].arg = OrderWith(<< E(K.status, Str(T.Cancelled)) >>)

\* C22: a cancellation flag that is a number other than 0 counts as truthy:
\* an order with cancelled: 2 is classified inactive.
C22_NonZeroNumberIsTruthy ==
    \A i \in DOMAIN runs :
        LET r == runs[i]
        IN  Classified(r) /\ Field(r, K.cancelled) = Num(2) => ~r.out.active

\* C23: for every valid certificate code in any letter case, normalizing
\* the normalized code gives it back, the normalized code has no lower-case
\* letter, and it is again a valid certificate code.
C23_NormalizeIdempotent ==
    \A i \in DOMAIN runs :
        LET r == runs[i]
        IN  r.kind = "normalize" /\ Done(r) /\ isCertificateCode(Str(r.arg)) =>
              /\ normalizeCertificateCode(r.out) = r.out.s
              /\ \A n \in DOMAIN r.out.s : r.out.s[n] \notin Range(LowerLetters)
              /\ isCertificateCode(r.out)
              /\ Len(r.out.s) = CodeLen

\* a padded code with lower-case letters has been normalized
C23_Witness ==
    \E i \in DOMAIN runs :
        LET r == runs[i]
        IN  /\ r.kind = "normalize" /\ Done(r)
            /\ isCertificateCode(Str(r.arg))
            /\ Len(r.arg) = CodeLen + 2
            /\ \E n \in DOMAIN r.arg : r.arg[n] = "a"
            /\ r.out.s # r.arg

\* a delivery the receiver has answered
Delivered(r) == r.via = "webhook" /\ Done(r)

\* body.action as the receiver compares it
ActionOf(r) == toLowerCase(trim(r.arg.action))

Recognized(r) == ActionOf(r) \in { T.orderCompleted, T.orderCancelled, T.orderCanceled }

\* the delivery's signature header fails verification
SignatureFails(r) == r.arg.signature = "mismatch"

\* wrong method, unreadable body, or a recognized action without an order id
Malformed(r) ==
    \/ r.arg.method # "POST"
    \/ ~r.arg.readable
    \/ Recognized(r) /\ r.arg.id = << >>

\* requests to the booking API, the wallet provider and the mapping store
UpstreamCalls(r) == At(r, { "fetch" }) \cup WalletRequests(r) \cup BackendRequests(r)

\* C24: the receiver answers 200 for every delivery it handled, whether the
\* run succeeded, was skipped or raised (the body then has status error), and
\* for ignored actions; it answers something else exactly for a malformed
\* request (405 for the method, 400 for the body or the missing order id) and
\* for a signature failure (401).
C24_HandledDeliveriesAnswer200 ==
    \A i \in DOMAIN runs :
        LET r == runs[i]
        IN  Delivered(r) =>
              /\ r.http = IF r.arg.method # "POST" THEN 405
                          ELSE IF ~r.arg.readable THEN 400
                          ELSE IF SignatureFails(r) THEN 401
                          ELSE IF Recognized(r) /\ r.arg.id = << >> THEN 400
                          ELSE 200
              /\ r.http # 200 <=> Malformed(r) \/ SignatureFails(r)
              /\ r.kind # "none" => r.http = 200

\* a delivery whose run raised was answered 200
C24_Witness ==
    \E i \in DOMAIN runs :
        LET r == runs[i]
        IN  /\ Delivered(r)
            /\ r.kind # "none"
            /\ r.result.status = "error"
            /\ WalletRequests(r) # {}
            /\ r.http = 200

\* C25: the receiver invokes a run only for recognized actions, compared
\* after trimming and lower-casing: order.completed invokes Enroll,
\* order.cancelled and order.canceled invoke Cancel by order id, once for the
\* delivery's order id; any other or missing action invokes no run and makes
\* no upstream call.
C25_OnlyRecognizedActionsRun ==
    \A i \in DOMAIN runs :
        LET r == runs[i]
            accepted == ~Malformed(r) /\ ~SignatureFails(r)
        IN  r.via = "webhook" =>
              /\ r.kind \in { "none", "enroll", "cancelOrder" }
              /\ r.kind # "none" => Recognized(r) /\ r.orderId = r.arg.id
              /\ r.kind = "enroll" <=> accepted /\ ActionOf(r) = T.orderCompleted
              /\ r.kind = "cancelOrder" <=>
                    accepted /\ ActionOf(r) \in { T.orderCancelled, T.orderCanceled }
              /\ Cardinality(At(r, { "fetch" })) <= 1
              /\ ~Recognized(r) => r.kind = "none" /\ UpstreamCalls(r) = {}

\* " Order.Cancelled" has invoked Cancel by order id
C25_Witness ==
    \E i \in DOMAIN runs :
        LET r == runs[i]
        IN  /\ Delivered(r)
            /\ r.arg.action = T.orderCancelledRaw
            /\ r.kind = "cancelOrder"
            /\ WalletRequests(r) # {}

\* another action has been ignored
C25_WitnessIgnored ==
    \E i \in DOMAIN runs :
        LET r == runs[i]
        IN  /\ Delivered(r)
            /\ r.arg.action = T.otherAction
            /\ r.arg.method = "POST" /\ r.arg.readable /\ r.arg.signature = "match"
            /\ r.http = 200

\* C26: the receiver invokes Enroll or Cancel only when the signature header
\* is absent or equals the HMAC of the raw body under the shared secret; a
\* delivery whose header does not match is answered 401 and triggers no run
\* and no upstream call.
C26_SignatureGuardsRuns ==
    \A i \in DOMAIN runs :
        LET r == runs[i]
        IN  r.via = "webhook" =>
              /\ r.kind # "none" => r.arg.signature \in { "absent", "match" }
              /\ r.arg.method = "POST" /\ r.arg.readable /\ SignatureFails(r) =>
                    /\ r.http = 401
                    /\ r.kind = "none"
                    /\ UpstreamCalls(r) = {}

\* a recognized delivery with an order id and a wrong signature was refused
C26_Witness ==
    \E i \in DOMAIN runs :
        LET r == runs[i]
        IN  /\ Delivered(r)
            /\ SignatureFails(r)
            /\ r.arg.action = T.orderCompleted
            /\ r.arg.id = T.order42
            /\ r.http = 401

\* a delivery with the matching signature has run
C26_WitnessMatch ==
    \E i \in DOMAIN runs :
        LET r == runs[i]
        IN  /\ Delivered(r)
            /\ r.arg.signature = "match"
            /\ r.kind = "enroll"
            /\ WalletRequests(r) # {}

\* the positions of the run's failed fetches
FailedFetches(r) == { k \in At(r, { "fetch" }) : ~r.trace[k].ok }

\* C27: when the booking API's fetch fails, in Enroll or in Cancel by order
\* id, the run logs an error entry next and then raises the failure; the run
\* makes no wallet request and no request to the mapping store.
C27_FetchFailureIsFatal ==
    \A i \in DOMAIN runs :
        LET r == runs[i]
        IN  \A k \in FailedFetches(r) :
              /\ r.kind \in { "enroll", "cancelOrder" }
              /\ k < Len(r.trace)
              /\ r.trace[k + 1].e = "log"
              /\ r.trace[k + 1].level = "error"
              /\ r.trace[k + 1].msg = IF r.kind = "enroll"
                                      THEN "Failed to fetch order"
                                      ELSE "Failed to fetch cancellation order"
              /\ Done(r)
              /\ Outcome(r) = "error"
              /\ r.result.error = "fetch_failed"
              /\ WalletRequests(r) = {}
              /\ BackendRequests(r) = {}

\* a cancellation for an order whose member is in the wallet raised because
\* the fetch failed
C27_Witness ==
    \E i \in DOMAIN runs :
        LET r == runs[i]
        IN  /\ r.kind = "cancelOrder"
            /\ FailedFetches(r) # {}
            /\ wallet # {}
            /\ mapping # {}

C27_WitnessEnroll ==
    \E i \in DOMAIN runs :
        LET r == runs[i]
        IN  /\ r.kind = "enroll"
            /\ FailedFetches(r) # {}
            /\ Done(r)

\* C28: a failure of the enabled-flag store is always swallowed: a request
\* whose read the backend fails is answered with the fallback value, and a
\* request whose write the backend fails is answered as accepted, without an
\* error, the value kept in memory.
C28_FlagStoreFailureSwallowed ==
    \A i \in DOMAIN runs :
        LET r == runs[i]
        IN  r.kind = "toggle" =>
              /\ r.result.status = "success"
              /\ r.http = 200
              /\ i = Len(runs) =>
                    \A k \in At(r, { "flagSet" }) :
                        inMemoryWebhookEnabled = r.trace[k].value

\* the run's log events
Logs(r) == At(r, { "log" })

\* C29: in every run each order fetch, each wallet upsert, each wallet status
\* update and each wallet delete is preceded by a log event of that run and,
\* once the run has ended, followed by one, on success and on failure, also
\* when Cancel is invoked directly by certificate code.
C29_RequestsBracketedByLogs ==
    \A i \in DOMAIN runs :
        LET r == runs[i]
        IN  r.kind \in { "enroll", "cancelOrder", "cancelCode" } =>
              \A k \in At(r, { "fetch", "put", "delete" }) :
                  /\ \E j \in Logs(r) : j < k
                  /\ Done(r) => \E j \in Logs(r) : j > k

\* every call has completed
Quiet == \A i \in DOMAIN runs : Done(runs[i])

\* the list holds consecutive entries, the newest first
NewestFirst(list) == \A k \in DOMAIN list : list[k] = list[1] - k + 1

\* the entries the calls have pushed
Pushed ==
    { runs[i].trace[k].entry :
        i \in { j \in DOMAIN runs : runs[j].kind = "appendLog" /\ runs[j].trace # << >> },
        k \in { 1 } }
        \ { runs[i].trace[1].entry :
              i \in { j \in DOMAIN runs : runs[j].kind = "appendLog" /\ runs[j].trace # << >>
                                            /\ ~runs[j].trace[1].ok } }

\* C30: with a durable backend, once each appendLog call has completed the
\* persisted list holds at most 100 entries, they are the most recently
\* appended ones, and getLogs returns them newest first.
C30_LogCappedAt100 ==
    /\ Quiet /\ cfg.redis =>
          /\ Len(logList) <= MAX_LOG_ENTRIES
          /\ NewestFirst(logList)
          /\ \A entry \in Pushed : logList # << >> /\ entry <= logList[1]
    /\ \A i \in DOMAIN runs :
          LET r == runs[i]
          IN  r.kind = "getLogs" => Len(r.out) <= MAX_LOG_ENTRIES /\ NewestFirst(r.out)

\* the calls whose trim the backend failed
FailedTrims ==
    { i \in DOMAIN runs : \E k \in At(runs[i], { "ltrim" }) : ~runs[i].trace[k].ok }

\* C30, amended: once each appendLog call has completed, the persisted list
\* holds at most 100 entries when the backend failed no trim, and at most one
\* more for each call whose trim it failed; the entries are consecutive, the
\* newest first, and none that was pushed is newer than the first; a call
\* never ends in an error; getLogs returns at most 100 entries, newest first.
C30_LogCappedUnlessTrimFails ==
    /\ Quiet /\ cfg.redis =>
          /\ Len(logList) <= MAX_LOG_ENTRIES + Cardinality(FailedTrims)
          /\ NewestFirst(logList)
          /\ \A entry \in Pushed : logList # << >> /\ entry <= logList[1]
    /\ \A i \in DOMAIN runs :
          LET r == runs[i]
          IN  /\ r.kind = "appendLog" /\ Done(r) => r.result.status = "success"
              /\ r.kind = "getLogs" =>
                    Len(r.out) <= MAX_LOG_ENTRIES /\ NewestFirst(r.out)

\* the list was at the cap, an entry was pushed and the list trimmed: the
\* oldest entry is gone
C30_Witness ==
    /\ Quiet
    /\ FailedTrims = {}
    /\ Pushed = { MAX_LOG_ENTRIES + 1 }
    /\ Len(logList) = MAX_LOG_ENTRIES
    /\ logList[1] = MAX_LOG_ENTRIES + 1
    /\ logList[MAX_LOG_ENTRIES] = 2

\* the list is left with 101 entries by a call whose trim failed
C30_WitnessOverCap ==
    /\ Quiet
    /\ FailedTrims # {}
    /\ Len(logList) = MAX_LOG_ENTRIES + 1

\* the requests before request i whose setWebhookEnabled call has completed
CompletedSets(i) ==
    { j \in 1..(i - 1) :
        /\ runs[j].kind = "toggle"
        /\ runs[j].arg.method = "POST"
        /\ runs[j].result.status = "success" }

Latest(S) == CHOOSE j \in S : \A k \in S : k <= j

\* C31: in one instance, getWebhookEnabled returns the default (true) as
\* long as no setWebhookEnabled call has completed and the backend holds no
\* value, and it returns x once setWebhookEnabled(x) has completed, with a
\* durable backend or without one.
C31_FlagReadsLatestSet ==
    \A i \in DOMAIN runs :
        LET r == runs[i]
            earlier == CompletedSets(i)
        IN  r.kind = "toggle" =>
              /\ (CompletedSets(Len(runs) + 1) = {} /\ redisFlag = "unset") =>
                    r.enabled = getWebhookDefaultEnabled
              /\ earlier # {} => Bool(r.enabled) = runs[Latest(earlier)].out

\* without a backend, a request finds the value an earlier request set to false
C31_Witness ==
    \E i \in DOMAIN runs :
        LET r == runs[i]
        IN  /\ r.kind = "toggle"
            /\ ~cfg.redis
            /\ CompletedSets(i) # {}
            /\ runs[Latest(CompletedSets(i))].out = Bool(FALSE)
            /\ r.enabled = FALSE

\* with a backend that fails the read, and nothing set, a request finds the default
C31_WitnessDefault ==
    \E i \in DOMAIN runs :
        LET r == runs[i]
        IN  /\ r.kind = "toggle"
            /\ cfg.redis
            /\ redisFlag = "unset"
            /\ CompletedSets(Len(runs) + 1) = {}
            /\ \E k \in At(r, { "flagGet" }) : ~r.trace[k].ok
            /\ r.enabled = TRUE

\* the helper calls of request r that the backend never answered
Hung(r) == { r.trace[k].op : k \in At(r, { "hang" }) }

\* a GET to the status endpoint answered 200, with the fallback values in
\* the place of the operations that never completed
AnsweredWithFallback(r) ==
    /\ r.http = 200
    /\ "logs" \in Hung(r) => r.out.logs = << >>
    /\ "enabled" \in Hung(r) => r.out.enabled = TRUE

\* C32: the status endpoint races log retrieval and toggle retrieval against
\* a short timeout: every GET to it is eventually answered 200, also when
\* getLogs or getWebhookEnabled never completes, with the empty log and
\* enabled = true for the operation that timed out.
C32_StatusAlwaysAnswers ==
    <>[](\A i \in DOMAIN runs :
            (runs[i].kind = "status" /\ runs[i].arg.method = "GET") =>
                AnsweredWithFallback(runs[i]))

\* C33: however Enroll and Cancel runs for one certificate code interleave
\* (durable backend, no request failing), once all runs have finished a
\* mapping for the code exists only if the wallet holds a member with that
\* external id that is neither cancelled nor deleted.
C33_NoMappingForCancelledMember ==
    (runs # << >> /\ Idle) =>
        (Resolve(T.codeUpper) # {} =>
            \E m \in MembersOf(T.codeUpper) : m.status # "CANCELLED")

\* Cancel run j has returned success while Enroll run i, started before it
\* for the same code, has its upsert still to issue
CancelledInFlight(i, j) ==
    /\ i \in DOMAIN runs /\ j \in DOMAIN runs
    /\ i < j
    /\ runs[i].kind = "enroll" /\ runs[i].pc = "upsert"
    /\ CancelSucceeded(runs[j])
    /\ runs[j].code = runs[i].code

\* C34: a completed cancellation is not undone by an enrollment already in
\* flight: once a Cancel run has returned success while an earlier Enroll run
\* for the code has not yet issued its upsert, the wallet member for the code
\* is cancelled or absent when both runs have finished.  Of the two runs only
\* the enrollment's upsert and its mapping write remain, so the member is
\* then as the step taken from such a state leaves it.
C34_CancelNotUndone ==
    [][(\E i, j \in DOMAIN runs : CancelledInFlight(i, j)) =>
          \A m \in wallet' : m.externalId = T.codeUpper => m.status = "CANCELLED"]_vars

\* the setWebhookEnabled calls completed before call i, on any instance
SetsBefore(i) == { j \in 1 .. (i - 1) : runs[j].kind = "setWebhookEnabled" }

\* C35: with a durable backend the persisted flag obeys "most recent write
\* wins" across instances: after setWebhookEnabled(x) has completed on any
\* instance, a later getWebhookEnabled on every instance returns x, also on
\* an instance that had itself set another value earlier.
C35_LatestWriteWinsAcrossInstances ==
    \A i \in DOMAIN runs :
        (runs[i].kind = "getWebhookEnabled" /\ SetsBefore(i) # {}) =>
            runs[i].out = runs[Latest(SetsBefore(i))].out

\* a run whose status update and whose fallback delete the provider rejected
BothRejected(r) ==
    /\ \E k \in At(r, { "put" }) : r.trace[k].purpose = "cancel" /\ ~r.trace[k].ok
    /\ \E k \in At(r, { "delete" }) : ~r.trace[k].ok

\* C36: when in a Cancel run the status update is rejected and the fallback
\* delete is rejected too, the run raises the delete's error to its caller,
\* reports no success and issues no removal of the mapping: with no other
\* run writing, the mapping of the code is still in place.
C36_DeleteFailureRaises ==
    \A i \in DOMAIN runs :
        LET r == runs[i]
        IN  BothRejected(r) =>
              /\ Done(r)
              /\ r.result.status = "error"
              /\ r.result.error = "delete_rejected"
              /\ r.result.inner # "success"
              /\ At(r, { "mapDel" }) = {}
              /\ LastEvent(r).e # "log" \/ LastEvent(r).msg # "Membership cancellation processed"
              /\ Alone(i) => Resolve(r.code) = { T.order42 }

\* a cancellation by code had both requests rejected and the mapping is there
C36_Witness ==
    \E i \in DOMAIN runs :
        LET r == runs[i]
        IN  /\ r.kind = "cancelCode"
            /\ BothRejected(r)
            /\ Done(r)
            /\ r.result.error = "delete_rejected"
            /\ Resolve(T.codeUpper) = { T.order42 }

\* the same in an enrollment that found its order cancelled
C36_WitnessEnroll ==
    \E i \in DOMAIN runs :
        LET r == runs[i]
        IN  /\ r.kind = "enroll" /\ r.wrap
            /\ BothRejected(r)
            /\ r.result.status = "error"

\* the query of the manual request that started run r
QueryOf(r) == r.trace[1].q

\* a POST to a manual endpoint with only orderId given, all of it digits
DigitsOnlyOrderId(r) ==
    /\ r.via = "manual"
    /\ r.http # 405
    /\ QueryOf(r).certificateCode = Undef
    /\ RawQuery(QueryOf(r).orderId) # << >>
    /\ \A c \in Range(RawQuery(QueryOf(r).orderId)) : c \in DigitChars

\* C37: in both manual endpoints an orderId query value made only of digits,
\* also one of exactly 8 digits, is handled as an order id (the order is
\* fetched from the booking API by that id) and never as a certificate code.
C37_DigitsAreAnOrderId ==
    \A i \in DOMAIN runs :
        LET r == runs[i]
        IN  DigitsOnlyOrderId(r) =>
              /\ r.kind \in { "enroll", "cancelOrder" }
              /\ r.orderId = RawQuery(QueryOf(r).orderId)
              /\ At(r, { "fetch" }) # {}
              /\ At(r, { "mapGet" }) = {}

\* the product names of the filter setting that are not empty
NamedProducts ==
    { p \in { toLowerCase(trim(piece)) : piece \in Range(split(cfg.filter)) } : p # << >> }

\* C38: with a non-empty filter setting, every order Enroll lets past the
\* filter has a title that contains, in any letter case, at least one
\* non-empty configured product name; a setting with an empty element
\* ("gold,") still has an order whose title names none of the products skipped.
C38_FilterNeedsNamedProduct ==
    \A i \in DOMAIN runs :
        LET r == runs[i]
            title == toLowerCase(OrEmpty(Get(Orders[r.order], Orders[r.order].root, K.title)))
        IN  (r.kind = "enroll" /\ r.order # 0 /\ cfg.filter # << >>) =>
              (r.result.reason.kind # "filter_mismatch" =>
                  \E p \in NamedProducts : includes(title, p))

\* a member-like object: one with a truthy id or memberId
MemberLike(v) ==
    v.t = "obj" /\ (Truthy(Prop(v, "id")) \/ Truthy(Prop(v, "memberId")))

\* the reference {id, emailAddress, externalId} read from a member-like object
RefOf(v) ==
    [t |-> "memberRef",
     id |-> JsString(IF Truthy(Prop(v, "id")) THEN Prop(v, "id") ELSE Prop(v, "memberId")),
     emailAddress |->
        IF Truthy(Prop(Prop(v, "person"), "emailAddress"))
        THEN Prop(Prop(v, "person"), "emailAddress")
        ELSE IF Truthy(Prop(v, "emailAddress")) THEN Prop(v, "emailAddress") ELSE Null,
     externalId |-> IF Truthy(Prop(v, "externalId")) THEN Prop(v, "externalId") ELSE Null]

\* the reference that has only an id
IdRef(id) == [t |-> "memberRef", id |-> id, emailAddress |-> Null, externalId |-> Null]

\* the values under the wrapper keys, in the order member, item, result, data
WrapperValues(d) ==
    << Prop(d, "member"), Prop(d, "item"), Prop(d, "result"),
       IF Prop(d, "data").t = "arr" THEN Undef ELSE Prop(d, "data") >>

\* the values the lists are looked for in, in the order payload, members,
\* results, items, data
ListValues(d) ==
    << d, Prop(d, "members"), Prop(d, "results"), Prop(d, "items"), Prop(d, "data") >>

NonEmptyList(v) == v.t = "arr" /\ Len(v.a) > 0

\* a non-empty list whose first element is a string or a member-like object
ListOfMembers(v) ==
    NonEmptyList(v) /\ (v.a[1].t = "str" \/ MemberLike(v.a[1]))

\* the reference read from the first element of a list, Null when the
\* element is neither a string nor member-like
RefOfFirst(v) ==
    IF v.a[1].t = "str" THEN IdRef(v.a[1].s)
    ELSE IF MemberLike(v.a[1]) THEN RefOf(v.a[1])
    ELSE Null

\* the first position of a sequence whose value satisfies the test, 0 if none
FirstWhere(seq, Test(_)) ==
    LET at == { n \in DOMAIN seq : Test(seq[n]) }
    IN  IF at = {} THEN 0 ELSE CHOOSE n \in at : \A m \in at : n <= m

\* the parser's result by the stated precedence, the list step choosing
\* among the lists that satisfy Usable
ByPrecedence(d, Usable(_)) ==
    LET w == FirstWhere(WrapperValues(d), MemberLike)
        l == FirstWhere(ListValues(d), Usable)
    IN  IF ~Truthy(d) THEN Null
        ELSE IF MemberLike(d) THEN RefOf(d)
        ELSE IF w # 0 THEN RefOf(WrapperValues(d)[w])
        ELSE IF NonEmptyList(Prop(d, "memberIds"))
        THEN IdRef(JsString(Prop(d, "memberIds").a[1]))
        ELSE IF l # 0 THEN RefOfFirst(ListValues(d)[l])
        ELSE Null

Parsed(r) == r.kind = "parse" /\ r.pc = "done"

\* C39 as stated: the parser returns the reference of a bare member-like
\* object; else of the first wrapper key among member, item, result, data
\* (data when not a list) that holds one; else the first element of a
\* non-empty memberIds list as the id; else what the first element of the
\* first non-empty list among payload, members, results, items, data gives
\* (a string is the id); else null.
C39_ParserPrecedence ==
    \A i \in DOMAIN runs :
        Parsed(runs[i]) => runs[i].out = ByPrecedence(runs[i].arg, NonEmptyList)

\* C39, amended: as stated, except that the list step takes the first list
\* among payload, members, results, items, data that is non-empty and whose
\* first element is a string or a member-like object; a non-empty list that
\* begins with anything else is passed over like an empty one.
C39_ParserPrecedenceSkippingLists ==
    \A i \in DOMAIN runs :
        Parsed(runs[i]) => runs[i].out = ByPrecedence(runs[i].arg, ListOfMembers)

\* a payload whose members list begins with an object that is no member and
\* whose results list begins with a string: the result is that string's id
C39_Witness ==
    \E i \in DOMAIN runs :
        LET d == runs[i].arg
        IN  /\ Parsed(runs[i])
            /\ d.t = "obj"
            /\ NonEmptyList(Prop(d, "members")) /\ ~ListOfMembers(Prop(d, "members"))
            /\ ListOfMembers(Prop(d, "results"))
            /\ runs[i].out = IdRef(Prop(d, "results").a[1].s)

\* a payload with a member that has only memberId under a wrapper key
C39_WitnessWrapper ==
    \E i \in DOMAIN runs :
        LET d == runs[i].arg
        IN  /\ Parsed(runs[i])
            /\ d.t = "obj" /\ ~MemberLike(d)
            /\ MemberLike(Prop(d, "item")) /\ ~Truthy(Prop(Prop(d, "item"), "id"))
            /\ runs[i].out # Null
            /\ runs[i].out.id = << "7" >>

====
